---- MODULE Spec2Model ----
(***************************************************************************)
(* Verification model of three subsystems of rattler:                      *)
(*   - the clobber registry of the install driver                          *)
(*       crates/rattler/src/install/clobber_registry.rs                    *)
(*   - the subdir coalescing and the recursive record loading of the       *)
(*     repodata gateway                                                    *)
(*       crates/rattler_repodata_gateway/src/gateway/mod.rs                *)
(*   - the JLAP patching engine                                            *)
(*       crates/rattler_repodata_gateway/src/fetch/jlap/mod.rs             *)
(* Each subsystem has its own specifications (Spec, SpecTx, SpecPost,     *)
(* SpecReinstall and SpecRegistry; SpecGateway, SpecLoad and FairSpecLoad; *)
(* SpecJlap; SpecSolve and SpecDedup); the variables of the other          *)
(* subsystems stay at their initial values.                                *)
(***************************************************************************)
EXTENDS Integers, Sequences, FiniteSets, TLC

(***************************************************************************)
(* Bounds                                                                  *)
(***************************************************************************)
\* number of packages of the install transaction
NPkgs == 2
\* number of distinct prefix-relative paths the packages may declare
NPaths == 2
\* register_paths calls made on a registry taken alone
MaxCalls == 2

Pkgs == 1..NPkgs
Paths == 1..NPaths

(***************************************************************************)
(* State.  The comments at the head of each subsystem explain the encoding. *)
(***************************************************************************)
VARIABLES
    pkgPaths,        \* paths.json of every package of the transaction
    sortedOrder,     \* the order post_process gives the prefix records
    paths_registry,  \* ClobberRegistry.paths_registry
    clobbers,        \* ClobberRegistry.clobbers
    package_names,   \* ClobberRegistry.package_names
    drop_bomb,       \* ClobberRegistry.drop_bomb is armed
    disk,            \* the files of the target prefix
    conda_meta,      \* conda-meta: the PrefixRecord written per package
    linkOrder,       \* the packages installed so far, in order
    postStatus,      \* "none" before post_process, then its outcome
    pkgVersion,      \* the version of every package the transaction leaves
    txStart,         \* a transaction on an existing prefix: the prefix it found
    txOps,           \* a transaction on an existing prefix: its operations so far
    regDropped       \* "no" while the ClobberRegistry lives, then how its drop ended

txVars == <<pkgVersion, txStart, txOps>>

clobberVars == <<pkgPaths, sortedOrder, paths_registry, clobbers, package_names,
                 drop_bomb, disk, conda_meta, linkOrder, postStatus, txVars, regDropped>>

VARIABLES
    gwEntry,     \* the map entry: vacant, Pending(weak sender) or Fetched(subdir)
    gwLock,      \* the task that holds the entry guard of the DashMap
    gwStrong,    \* per channel: the number of live Arc<Sender>
    gwHeld,      \* per task: the channel whose Arc<Sender> it holds, 0 for none
    gwSub,       \* per task: whether it has subscribed a receiver
    gwMsg,       \* per task: the value waiting in its receiver, "none" if empty
    gwPc,        \* per task: its position in get_or_create_subdir
    gwRet,       \* per task: the value returned
    gwNextCh,    \* the number of channels created so far
    gwOutcome,   \* per channel: what became of its loader
    gwVia        \* per task: the arm of the match on the entry it took

gatewayVars == <<gwEntry, gwLock, gwStrong, gwHeld, gwSub, gwMsg, gwPc, gwRet,
                 gwNextCh, gwOutcome, gwVia>>

VARIABLES
    jSrvIv,      \* server: the iv line of repodata.jlap
    jSrvBase,    \* server: the repodata version the log starts from
    jSrvN,       \* server: the number of patch lines of the log
    jDoc,        \* client: the content of the cached repodata.json
    jHash,       \* client: RepoDataState.blake2_hash
    jState,      \* client: RepoDataState.jlap, an Option<JLAPState>
    jSessions,   \* the number of patch_repo_data calls made
    jLast        \* what the last patch_repo_data call did and returned

jlapVars == <<jSrvIv, jSrvBase, jSrvN, jDoc, jHash, jState, jSessions, jLast>>

VARIABLES
    ldChannels,   \* load_records_recursive: the channels argument, a list
    ldPlatforms,  \* the platforms argument, a list
    ldSeeds,      \* the names argument
    ldPc,         \* "entry", "loop", "returned"
    ldEntry,      \* GatewayInner.subdirs, by (channel, platform)
    ldClient,     \* what the subdir client constructor answered, by key
    ldSub,        \* the futures of pending_subdirs, by index into subdirs
    ldBarrier,    \* the BarrierCell of every element of subdirs
    ldSeen,       \* seen
    ldPending,    \* the futures in pending_records: <<subdir index, name>>
    ldRequests,   \* the futures that called get_or_fetch_package_records
    ldResult,     \* result
    ldReturn      \* the value returned: "none", "ok", "err"

loadVars == <<ldChannels, ldPlatforms, ldSeeds, ldPc, ldEntry, ldClient, ldSub,
              ldBarrier, ldSeen, ldPending, ldRequests, ldResult, ldReturn>>

VARIABLES
    svTask,       \* the SolverTask: repodata, favored, locked, specs, configuration
    svPc,         \* "start", "provided", "failed", "solved"
    svProvider,   \* the CondaDependencyProvider from_solver_task built
    svError,      \* the SolveError returned, "none" if none
    svSolution    \* the solvables the solver selected

solveVars == <<svTask, svPc, svProvider, svError, svSolution>>

VARIABLES
    rgRegistry,   \* a ClobberRegistry taken alone: paths_registry, clobbers, package_names
    rgCalls       \* the register_paths calls made on it: name, whether it was known,
                  \* the paths and the renames returned

registryVars == <<rgRegistry, rgCalls>>

vars == <<clobberVars, gatewayVars, jlapVars, loadVars, solveVars, registryVars>>

nonClobberVars == <<gatewayVars, jlapVars, loadVars, solveVars, registryVars>>

nonGatewayVars == <<clobberVars, jlapVars, loadVars, solveVars, registryVars>>

nonJlapVars == <<clobberVars, gatewayVars, loadVars, solveVars, registryVars>>

nonLoadVars == <<clobberVars, gatewayVars, jlapVars, solveVars, registryVars>>

nonSolveVars == <<clobberVars, gatewayVars, jlapVars, loadVars, registryVars>>

nonRegistryVars == <<clobberVars, gatewayVars, jlapVars, loadVars, solveVars>>

(***************************************************************************)
(* Generic helpers                                                         *)
(***************************************************************************)
Range(s) == {s[i] : i \in DOMAIN s}

Last(s) == s[Len(s)]

\* all orderings of a finite set of integers
Perms(S) == {s \in [1..Cardinality(S) -> S] : \A i, j \in DOMAIN s : i # j => s[i] # s[j]}

\* the elements of a set of integers in ascending order
RECURSIVE SetToSeq(_)
SetToSeq(S) ==
    IF S = {} THEN <<>>
    ELSE LET m == CHOOSE x \in S : \A y \in S : x <= y
         IN <<m>> \o SetToSeq(S \ {m})

\* Iterator::position: 1-based index of the first element equal to x, 0 for None
PositionOf(s, x) ==
    IF \E i \in DOMAIN s : s[i] = x
    THEN CHOOSE i \in DOMAIN s : s[i] = x /\ \A j \in 1..(i - 1) : s[j] # x
    ELSE 0

(***************************************************************************)
(* CLOBBER REGISTRY                                                        *)
(*                                                                         *)
(* A package name is a number of Pkgs, a path a number of Paths.  A file   *)
(* name in the prefix is [path, clob]: clob = 0 is the canonical name      *)
(* `path`, clob = n is `path__clobber-from-<n>`.  The content of a file is *)
(* the name of the package it was linked from (0: the file is absent).     *)
(* Indices into package_names are 1-based here (0-based in the source);    *)
(* 0 stands for "no entry" in paths_registry and for None in original_path.*)
(***************************************************************************)
FileNames == [path : Paths, clob : 0..NPkgs]

CanonicalName(path) == [path |-> path, clob |-> 0]

\* ClobberRegistry::clobber_name: `<path>__clobber-from-<name>`
clobber_name(path, package_name) == [path |-> path, clob |-> package_name]

NoRecord == [present |-> FALSE, name |-> 0, files |-> <<>>, paths |-> <<>>]

EmptyRegistry ==
    [paths_registry |-> [p \in Paths |-> 0],
     clobbers       |-> [p \in Paths |-> <<>>],
     package_names  |-> <<>>]

EmptyPrefix ==
    [disk       |-> [f \in FileNames |-> 0],
     conda_meta |-> [n \in Pkgs |-> NoRecord]]

\* a variant in which the package that registers a path of another package
\* becomes its owner
RegisterEntryTakeOver(acc, name_idx, path) ==
    LET e == acc.reg.paths_registry[path] IN
    IF e = name_idx THEN acc
    ELSE [acc EXCEPT !.reg.paths_registry[path] = name_idx]

\* a variant without the check for a path the package owns itself
RegisterEntryNoSelfCheck(acc, name_idx, path) ==
    LET e == acc.reg.paths_registry[path] IN
    IF e # 0
    THEN [reg |-> [acc.reg EXCEPT
                     !.clobbers[path] = Append(IF @ = <<>> THEN <<e>> ELSE @, name_idx)],
          clobber_paths |-> acc.clobber_paths \cup
                     {<<path, clobber_name(path, acc.reg.package_names[name_idx])>>}]
    ELSE [acc EXCEPT !.reg.paths_registry[path] = name_idx]

\* one iteration of the loop of register_paths
RegisterEntry(acc, name_idx, path) ==
    LET e == acc.reg.paths_registry[path] IN
    IF e # 0
    THEN IF e = name_idx
         THEN acc
         ELSE [reg |-> [acc.reg EXCEPT
                          !.clobbers[path] = Append(IF @ = <<>> THEN <<e>> ELSE @, name_idx)],
               clobber_paths |-> acc.clobber_paths \cup
                          {<<path, clobber_name(path, acc.reg.package_names[name_idx])>>}]
    ELSE [acc EXCEPT !.reg.paths_registry[path] = name_idx]

RECURSIVE RegisterLoop(_, _, _)
RegisterLoop(acc, name_idx, paths) ==
    IF paths = <<>> THEN acc
    ELSE RegisterLoop(RegisterEntry(acc, name_idx, Head(paths)), name_idx, Tail(paths))

\* a variant that appends the name without looking for it in package_names
register_paths_append(reg, name, paths) ==
    LET reg1     == [reg EXCEPT !.package_names = Append(@, name)]
        name_idx == Len(reg1.package_names)
    IN RegisterLoop([reg |-> reg1, clobber_paths |-> {}], name_idx, paths)

\* ClobberRegistry::register_paths: the new registry and the renames returned
register_paths(reg, name, paths) ==
    LET idx      == PositionOf(reg.package_names, name)
        reg1     == IF idx # 0 THEN reg
                    ELSE [reg EXCEPT !.package_names = Append(@, name)]
        name_idx == IF idx # 0 THEN idx ELSE Len(reg1.package_names)
    IN RegisterLoop([reg |-> reg1, clobber_paths |-> {}], name_idx, paths)

\* the name link_package links `path` under, given the renames of register_paths
LinkTarget(clobber_paths, path) ==
    IF \E r \in clobber_paths : r[1] = path
    THEN (CHOOSE r \in clobber_paths : r[1] = path)[2]
    ELSE CanonicalName(path)

\* link_package followed by the write of the PrefixRecord: every file of the
\* package is linked under its (possibly renamed) name, and the record lists
\* the name used, with original_path set for a renamed file
install_package_to_environment(prefix, name, paths, clobber_paths) ==
    LET entries == [i \in DOMAIN paths |->
                      LET t == LinkTarget(clobber_paths, paths[i]) IN
                      [relative_path |-> t,
                       original_path |-> IF t = CanonicalName(paths[i]) THEN 0 ELSE paths[i]]]
        targets == {entries[i].relative_path : i \in DOMAIN entries}
    IN [disk       |-> [f \in FileNames |-> IF f \in targets THEN name ELSE prefix.disk[f]],
        conda_meta |-> [prefix.conda_meta EXCEPT ![name] =
                          [present |-> TRUE, name |-> name,
                           files   |-> [i \in DOMAIN entries |-> entries[i].relative_path],
                           paths   |-> entries]]]

\* execute_operation for TransactionOperation::Install(name)
execute_operation(st, name) ==
    LET r == register_paths(st.reg, name, SetToSeq(pkgPaths[name]))
    IN [reg    |-> r.reg,
        prefix |-> install_package_to_environment(st.prefix, name,
                       SetToSeq(pkgPaths[name]), r.clobber_paths)]

\* PrefixRecord::collect_from_prefix in the order post_process sorts them
collect_from_prefix(meta, order) ==
    LET present == SelectSeq(order, LAMBDA n : meta[n].present)
    IN [i \in DOMAIN present |-> meta[present[i]]]

rename_path_in_prefix_record(record, old_path, new_path, new_path_is_clobber) ==
    [record EXCEPT
       !.files = [i \in DOMAIN record.files |->
                    IF record.files[i] = old_path THEN new_path ELSE record.files[i]],
       !.paths = [i \in DOMAIN record.paths |->
                    IF record.paths[i].relative_path = old_path
                    THEN [relative_path |-> new_path,
                          original_path |-> IF new_path_is_clobber THEN old_path.path ELSE 0]
                    ELSE record.paths[i]]]

\* std::fs::rename on the model of the prefix: the source must exist
fs_rename(d, from, to) == [d EXCEPT ![to] = d[from], ![from] = 0]

\* a variant that keeps the registration order of clobbered_by_names and
\* omits the ordering by position in the sorted records
SortedClobberedByRegistration(sorted_names, clobbered_by_names) ==
    [i \in DOMAIN clobbered_by_names |-> PositionOf(sorted_names, clobbered_by_names[i])]

\* the indices (into the sorted records) of the records whose name is in
\* clobbered_by_names, in sorted order
SortedClobberedBy(sorted_names, clobbered_by_names) ==
    SelectSeq([i \in DOMAIN sorted_names |-> i],
              LAMBDA i : sorted_names[i] \in Range(clobbered_by_names))

\* a variant that takes the first element of sorted_clobbered_by
WinnerFirst(sorted_clobbered_by) == Head(sorted_clobbered_by)

\* the winner of a path: the last element of sorted_clobbered_by
Winner(sorted_clobbered_by) == Last(sorted_clobbered_by)

\* the loser branch of unclobber (source lines 180-207)
UnclobberLoser(st, records, sorted_names, sorted_clobbered_by, path, loser_name) ==
    IF st.disk[CanonicalName(path)] = 0 THEN st
    ELSE LET loser_path == clobber_name(path, loser_name)
             d1         == fs_rename(st.disk, CanonicalName(path), loser_path)
             found      == SelectSeq(sorted_clobbered_by, LAMBDA i : sorted_names[i] = loser_name)
         IN IF found = <<>>
            THEN [st EXCEPT !.disk = d1, !.status = "panic"]
            ELSE LET rec == rename_path_in_prefix_record(records[Head(found)],
                                CanonicalName(path), loser_path, TRUE)
                 IN [st EXCEPT !.disk = d1, !.conda_meta[rec.name] = rec]

\* the winner branch of unclobber (source lines 209-226)
UnclobberWinner(st, records, path, winner_idx, winner_name) ==
    LET winner_path == clobber_name(path, winner_name) IN
    IF st.disk[winner_path] = 0
    THEN [st EXCEPT !.status = "io_error"]
    ELSE LET rec == rename_path_in_prefix_record(records[winner_idx],
                        winner_path, CanonicalName(path), FALSE)
         IN [st EXCEPT !.disk = fs_rename(st.disk, winner_path, CanonicalName(path)),
                       !.conda_meta[rec.name] = rec]

\* a variant that skips an entry of clobbers that has no winner
UnclobberPathSkip(st, reg, records, path) ==
    LET clobbered_by_names  == [i \in DOMAIN reg.clobbers[path] |->
                                  reg.package_names[reg.clobbers[path][i]]]
        sorted_names        == [i \in DOMAIN records |-> records[i].name]
        sorted_clobbered_by == SortedClobberedBy(sorted_names, clobbered_by_names)
    IN IF sorted_clobbered_by = <<>>
       THEN st
       ELSE LET winner_idx  == Winner(sorted_clobbered_by)
                winner_name == sorted_names[winner_idx]
            IN IF winner_name = clobbered_by_names[1]
               THEN st
               ELSE LET s1 == UnclobberLoser(st, records, sorted_names, sorted_clobbered_by,
                                             path, clobbered_by_names[1])
                    IN IF s1.status # "ok" THEN s1
                       ELSE UnclobberWinner(s1, records, path, winner_idx, winner_name)

\* the body of the loop of unclobber for one entry of clobbers
UnclobberPath(st, reg, records, path) ==
    LET clobbered_by_names  == [i \in DOMAIN reg.clobbers[path] |->
                                  reg.package_names[reg.clobbers[path][i]]]
        sorted_names        == [i \in DOMAIN records |-> records[i].name]
        sorted_clobbered_by == SortedClobberedBy(sorted_names, clobbered_by_names)
    IN IF sorted_clobbered_by = <<>>
       THEN [st EXCEPT !.status = "panic"]
       ELSE LET winner_idx  == Winner(sorted_clobbered_by)
                winner_name == sorted_names[winner_idx]
            IN IF winner_name = clobbered_by_names[1]
               THEN st
               ELSE LET s1 == UnclobberLoser(st, records, sorted_names, sorted_clobbered_by,
                                             path, clobbered_by_names[1])
                    IN IF s1.status # "ok" THEN s1
                       ELSE UnclobberWinner(s1, records, path, winner_idx, winner_name)

RECURSIVE UnclobberLoop(_, _, _, _)
UnclobberLoop(st, reg, records, order) ==
    IF order = <<>> \/ st.status # "ok" THEN st
    ELSE UnclobberLoop(UnclobberPath(st, reg, records, Head(order)), reg, records, Tail(order))

\* the paths that have an entry in clobbers
ClobberKeys(reg) == {p \in Paths : reg.clobbers[p] # <<>>}

\* ClobberRegistry::unclobber; `order` is the iteration order of the HashMap
unclobber(prefix, reg, records, order) ==
    UnclobberLoop([disk |-> prefix.disk, conda_meta |-> prefix.conda_meta, status |-> "ok"],
                  reg, records, order)

CurrentRegistry ==
    [paths_registry |-> paths_registry, clobbers |-> clobbers, package_names |-> package_names]

CurrentPrefix == [disk |-> disk, conda_meta |-> conda_meta]

\* no earlier prefix: the transaction starts on an empty target prefix
NoStart == [disk |-> EmptyPrefix.disk, conda_meta |-> EmptyPrefix.conda_meta,
            pkgPaths |-> [n \in Pkgs |-> {}], installed |-> {}]

\* ClobberRegistry::default and an empty target prefix; the transaction
\* installs every package of Pkgs, each declaring any set of paths
ClobberInit ==
    /\ pkgPaths \in [Pkgs -> SUBSET Paths]
    /\ sortedOrder \in Perms(Pkgs)
    /\ paths_registry = EmptyRegistry.paths_registry
    /\ clobbers = EmptyRegistry.clobbers
    /\ package_names = EmptyRegistry.package_names
    /\ drop_bomb = TRUE
    /\ disk = EmptyPrefix.disk
    /\ conda_meta = EmptyPrefix.conda_meta
    /\ linkOrder = <<>>
    /\ postStatus = "none"
    /\ pkgVersion = [n \in Pkgs |-> 1]
    /\ txStart = NoStart
    /\ txOps = <<>>
    /\ regDropped = "no"

\* one iteration of execute_transaction: TransactionOperation::Install(name)
Install(name) ==
    /\ postStatus = "none"
    /\ regDropped = "no"
    /\ name \notin Range(linkOrder)
    /\ LET r == execute_operation([reg |-> CurrentRegistry, prefix |-> CurrentPrefix], name)
       IN /\ paths_registry' = r.reg.paths_registry
          /\ clobbers' = r.reg.clobbers
          /\ package_names' = r.reg.package_names
          /\ disk' = r.prefix.disk
          /\ conda_meta' = r.prefix.conda_meta
    /\ linkOrder' = Append(linkOrder, name)
    /\ UNCHANGED <<pkgPaths, sortedOrder, drop_bomb, postStatus, txVars, regDropped>>
    /\ UNCHANGED nonClobberVars

\* a variant in which post_process clears the clobbers it has resolved
PostProcessForgets ==
    /\ postStatus = "none"
    /\ regDropped = "no"
    /\ Range(linkOrder) = Pkgs
    /\ \E order \in Perms(ClobberKeys(CurrentRegistry)) :
          LET r == unclobber(CurrentPrefix, CurrentRegistry,
                             collect_from_prefix(conda_meta, sortedOrder), order)
          IN /\ disk' = r.disk
             /\ conda_meta' = r.conda_meta
             /\ postStatus' = r.status
    /\ drop_bomb' = FALSE
    /\ clobbers' = [p \in Paths |-> <<>>]
    /\ UNCHANGED <<pkgPaths, sortedOrder, paths_registry, package_names, linkOrder,
                   txVars, regDropped>>
    /\ UNCHANGED nonClobberVars

\* the end of execute_transaction: collect_from_prefix, then post_process
PostProcess ==
    /\ postStatus = "none"
    /\ regDropped = "no"
    /\ Range(linkOrder) = Pkgs
    /\ \E order \in Perms(ClobberKeys(CurrentRegistry)) :
          LET r == unclobber(CurrentPrefix, CurrentRegistry,
                             collect_from_prefix(conda_meta, sortedOrder), order)
          IN /\ disk' = r.disk
             /\ conda_meta' = r.conda_meta
             /\ postStatus' = r.status
    /\ drop_bomb' = FALSE
    /\ UNCHANGED <<pkgPaths, sortedOrder, paths_registry, clobbers, package_names, linkOrder,
                   txVars, regDropped>>
    /\ UNCHANGED nonClobberVars

ClobberNext == (\E name \in Pkgs : Install(name)) \/ PostProcess


(***************************************************************************)
(* Claims about the clobber registry                                       *)
(***************************************************************************)
\* the packages that declare `path`
Registrants(path) == {n \in Pkgs : path \in pkgPaths[n]}

\* the package that is last in sorted_prefix_records among a set of packages
LastInSortedOrder(S) ==
    sortedOrder[CHOOSE i \in DOMAIN sortedOrder :
                   /\ sortedOrder[i] \in S
                   /\ \A j \in DOMAIN sortedOrder : sortedOrder[j] \in S => j <= i]

CanonicalOwners(d) == [p \in Paths |-> d[CanonicalName(p)]]

ClobberFiles(d) == {f \in FileNames : f.clob # 0 /\ d[f] # 0}

RECURSIVE RunInstalls(_, _)
RunInstalls(st, order) ==
    IF order = <<>> THEN st
    ELSE RunInstalls(execute_operation(st, Head(order)), Tail(order))

\* the whole transaction run with the packages installed in ascending order
ReferenceRun ==
    LET st == RunInstalls([reg |-> EmptyRegistry, prefix |-> EmptyPrefix], SetToSeq(Pkgs))
    IN unclobber(st.prefix, st.reg, collect_from_prefix(st.prefix.conda_meta, sortedOrder),
                 SetToSeq(ClobberKeys(st.reg)))

\* C1: clobber determinism. Whatever the order in which the packages were
\* registered and linked, after post_process the package at every canonical
\* path and the set of __clobber-from- files are those of the run that
\* installs the same packages in ascending order.
C1_ClobberDeterminism ==
    postStatus # "none" =>
        /\ postStatus = ReferenceRun.status
        /\ CanonicalOwners(disk) = CanonicalOwners(ReferenceRun.disk)
        /\ ClobberFiles(disk) = ClobberFiles(ReferenceRun.disk)

\* a finished run in another order than the reference, with a path that all
\* packages declare and whose first registrant had to give up the path
C1_Witness ==
    /\ postStatus = "ok"
    /\ linkOrder # SetToSeq(Pkgs)
    /\ \E p \in Paths : /\ Registrants(p) = Pkgs
                        /\ disk[CanonicalName(p)] # linkOrder[1]
                        /\ disk[clobber_name(p, linkOrder[1])] = linkOrder[1]

\* C4: after an install-only transaction on an empty registry and
\* post_process, a path declared by two or more packages holds, at its
\* canonical name, the file of the declaring package that is last in
\* sorted_prefix_records; every other declaring package has its file at
\* <path>__clobber-from-<its name>.
C4_WinnerIsLastSorted ==
    postStatus = "ok" =>
        \A p \in Paths :
            Cardinality(Registrants(p)) >= 2 =>
                /\ disk[CanonicalName(p)] = LastInSortedOrder(Registrants(p))
                /\ \A n \in Registrants(p) \ {LastInSortedOrder(Registrants(p))} :
                       disk[clobber_name(p, n)] = n

\* a path declared by several packages where the package linked first is
\* not the last sorted one: unclobber moved its file to the clobber name and
\* the file of the last sorted package to the canonical name
C4_Witness ==
    /\ postStatus = "ok"
    /\ \E p \in Paths : /\ Cardinality(Registrants(p)) >= 2
                        /\ linkOrder[1] \in Registrants(p)
                        /\ LastInSortedOrder(Registrants(p)) # linkOrder[1]
                        /\ disk[CanonicalName(p)] = LastInSortedOrder(Registrants(p))
                        /\ disk[clobber_name(p, linkOrder[1])] = linkOrder[1]

\* the PrefixRecord of package n lists every file of n under the name the
\* file has on disk
RecordMatchesDisk(n) ==
    LET rec == conda_meta[n]
        ps  == SetToSeq(pkgPaths[n])
    IN /\ rec.present
       /\ Len(rec.paths) = Len(ps)
       /\ Len(rec.files) = Len(ps)
       /\ \A i \in DOMAIN ps :
            LET expected == IF disk[CanonicalName(ps[i])] = n
                            THEN [relative_path |-> CanonicalName(ps[i]), original_path |-> 0]
                            ELSE [relative_path |-> clobber_name(ps[i], n),
                                  original_path |-> ps[i]]
            IN /\ rec.paths[i] = expected
               /\ rec.files[i] = expected.relative_path
               /\ disk[expected.relative_path] = n

\* C5: after post_process the PrefixRecord in conda-meta of every present
\* package lists each of its files under the name the file has on disk
\* (canonical path without original_path, or the clobber name with
\* original_path), for any number of paths two packages collide on.
C5_RecordsMatchDisk ==
    postStatus = "ok" => \A n \in Pkgs : RecordMatchesDisk(n)

(***************************************************************************)
(* A TRANSACTION ON AN EXISTING PREFIX                                     *)
(*                                                                         *)
(* The prefix was produced by an install-only transaction and its          *)
(* post_process.  The install driver of the next transaction builds its    *)
(* registry with from_prefix_records; the transaction removes, changes and *)
(* installs packages and ends with post_process.  The content of a file    *)
(* linked from version v of package n is Content(n, v); version 1 of a     *)
(* package has the content n used above.                                   *)
(***************************************************************************)
Content(name, version) == name + NPkgs * (version - 1)

\* the package a file content was linked from
ContentName(c) == ((c - 1) % NPkgs) + 1

\* the first loop of from_prefix_records for the entries of one record
RECURSIVE FromRecordPaths(_, _, _)
FromRecordPaths(acc, package_name, entries) ==
    IF entries = <<>> THEN acc
    ELSE LET p == Head(entries) IN
         FromRecordPaths(
            IF p.original_path # 0
            THEN [acc EXCEPT !.temp_clobbers = Append(@, <<p.original_path, package_name>>)]
            ELSE [acc EXCEPT !.reg.paths_registry[p.relative_path.path] =
                                 Len(acc.reg.package_names)],
            package_name, Tail(entries))

\* the first loop of from_prefix_records
RECURSIVE FromRecords(_, _)
FromRecords(acc, prefix_records) ==
    IF prefix_records = <<>> THEN acc
    ELSE LET r  == Head(prefix_records)
             a1 == [acc EXCEPT !.reg.package_names = Append(@, r.name)]
         IN FromRecords(FromRecordPaths(a1, r.name, r.paths), Tail(prefix_records))

\* the second loop of from_prefix_records
RECURSIVE FromTempClobbers(_, _)
FromTempClobbers(reg, temp_clobbers) ==
    IF temp_clobbers = <<>> THEN reg
    ELSE LET path == Head(temp_clobbers)[1]
             idx  == PositionOf(reg.package_names, Head(temp_clobbers)[2])
             cur  == IF reg.clobbers[path] # <<>> THEN reg.clobbers[path]
                     ELSE IF reg.paths_registry[path] # 0
                          THEN <<reg.paths_registry[path]>>
                          ELSE <<>>
         IN FromTempClobbers([reg EXCEPT !.clobbers[path] = Append(cur, idx)],
                             Tail(temp_clobbers))

\* ClobberRegistry::from_prefix_records
from_prefix_records(prefix_records) ==
    LET a == FromRecords([reg |-> EmptyRegistry, temp_clobbers |-> <<>>], prefix_records)
    IN FromTempClobbers(a.reg, a.temp_clobbers)

\* unlink_package: removes every file the record lists (a file that is
\* already gone is skipped) and the record itself
unlink_package(prefix, record) ==
    LET listed == {record.paths[i].relative_path : i \in DOMAIN record.paths}
    IN [disk       |-> [f \in FileNames |-> IF f \in listed THEN 0 ELSE prefix.disk[f]],
        conda_meta |-> [prefix.conda_meta EXCEPT ![record.name] = NoRecord]]

\* install_package_to_environment for a given version of the package
install_version(prefix, name, version, paths, clobber_paths) ==
    LET r      == install_package_to_environment(prefix, name, paths, clobber_paths)
        linked == Range(r.conda_meta[name].files)
    IN [r EXCEPT !.disk = [f \in FileNames |->
                             IF f \in linked THEN Content(name, version) ELSE prefix.disk[f]]]

\* execute_operation for any TransactionOperation: op.remove is the record
\* to remove (NoRecord for None), op.install tells whether there is a record
\* to install, of version op.version and with the paths op.paths; the result
\* carries the renames register_paths returned to link_package
execute_any_operation(st, op) ==
    LET p1 == IF op.remove.present THEN unlink_package(st.prefix, op.remove) ELSE st.prefix
    IN IF op.install
       THEN LET r == register_paths(st.reg, op.name, SetToSeq(op.paths))
            IN [reg    |-> r.reg,
                prefix |-> install_version(p1, op.name, op.version, SetToSeq(op.paths),
                                           r.clobber_paths),
                clobber_paths |-> r.clobber_paths]
       ELSE [reg |-> st.reg, prefix |-> p1, clobber_paths |-> {}]

\* the transaction's operation on package `name`
Operation(kind, name) ==
    [kind    |-> kind,
     name    |-> name,
     remove  |-> IF kind = "install" THEN NoRecord ELSE txStart.conda_meta[name],
     install |-> kind # "remove",
     version |-> pkgVersion'[name],
     paths   |-> pkgPaths'[name]]

\* the elements of S in ascending order
Ascending(S) == CHOOSE s \in Perms(S) : \A i, j \in DOMAIN s : i < j => s[i] < s[j]

\* the prefix an install-only transaction and its post_process left, and the
\* registry InstallDriver::new builds from the records collected there; the
\* sorted order is one of sorted_orders, the first transaction linked its
\* packages in ascending order (ascending) or in any order
TxInitFrom(sorted_orders, ascending) ==
    /\ pkgPaths \in [Pkgs -> SUBSET Paths]
    /\ sortedOrder \in sorted_orders
    /\ \E installed \in SUBSET Pkgs \ {{}} :
         \E lo \in (IF ascending THEN {Ascending(installed)} ELSE Perms(installed)),
            ro \in Perms(installed) :
           \E st \in {RunInstalls([reg |-> EmptyRegistry, prefix |-> EmptyPrefix], lo)} :
           \E ho \in Perms(ClobberKeys(st.reg)) :
           \E u \in {unclobber(st.prefix, st.reg,
                                collect_from_prefix(st.prefix.conda_meta, sortedOrder), ho)} :
           \E reg \in {from_prefix_records([i \in DOMAIN ro |-> u.conda_meta[ro[i]]])} :
                /\ u.status = "ok"
                /\ disk = u.disk
                /\ conda_meta = u.conda_meta
                /\ paths_registry = reg.paths_registry
                /\ clobbers = reg.clobbers
                /\ package_names = reg.package_names
                /\ txStart = [disk |-> u.disk, conda_meta |-> u.conda_meta,
                              pkgPaths |-> pkgPaths, installed |-> installed]
    /\ drop_bomb = TRUE
    /\ linkOrder = <<>>
    /\ postStatus = "none"
    /\ pkgVersion = [n \in Pkgs |-> 1]
    /\ txOps = <<>>
    /\ regDropped = "no"

\* every sorted order and every link order of the first transaction
TxInit == TxInitFrom(Perms(Pkgs), FALSE)

\* the first transaction linked its packages in the sorted order
PostInit == TxInitFrom({Ascending(Pkgs)}, TRUE)

\* one iteration of execute_transaction for an operation of the given kind
TxOperation(kind, name) ==
    /\ postStatus = "none"
    /\ regDropped = "no"
    /\ \A i \in DOMAIN txOps : txOps[i].name # name
    /\ LET op == Operation(kind, name)
           r  == execute_any_operation([reg |-> CurrentRegistry, prefix |-> CurrentPrefix], op)
       IN /\ paths_registry' = r.reg.paths_registry
          /\ clobbers' = r.reg.clobbers
          /\ package_names' = r.reg.package_names
          /\ disk' = r.prefix.disk
          /\ conda_meta' = r.prefix.conda_meta
          /\ txOps' = Append(txOps, [kind |-> kind, name |-> name,
                                     renamed |-> {c[1] : c \in r.clobber_paths}])
    /\ UNCHANGED <<sortedOrder, drop_bomb, linkOrder, postStatus, txStart, regDropped>>
    /\ UNCHANGED nonClobberVars

\* TransactionOperation::Remove of an installed package
TxRemove(name) ==
    /\ name \in txStart.installed
    /\ UNCHANGED <<pkgPaths, pkgVersion>>
    /\ TxOperation("remove", name)

\* TransactionOperation::Change of an installed package to a new version
\* that declares the paths new_paths
TxChange(name, new_paths) ==
    /\ name \in txStart.installed
    /\ pkgPaths' = [pkgPaths EXCEPT ![name] = new_paths]
    /\ pkgVersion' = [pkgVersion EXCEPT ![name] = 2]
    /\ TxOperation("change", name)

\* TransactionOperation::Install of a package that is not in the prefix
TxInstall(name) ==
    /\ name \notin txStart.installed
    /\ UNCHANGED <<pkgPaths, pkgVersion>>
    /\ TxOperation("install", name)

\* a variant that defuses the bomb only when unclobber returns Ok
TxPostProcessDefuseOnOk ==
    /\ postStatus = "none"
    /\ regDropped = "no"
    /\ txOps # <<>>
    /\ \E order \in Perms(ClobberKeys(CurrentRegistry)) :
          LET r == unclobber(CurrentPrefix, CurrentRegistry,
                             collect_from_prefix(conda_meta, sortedOrder), order)
          IN /\ disk' = r.disk
             /\ conda_meta' = r.conda_meta
             /\ postStatus' = r.status
             /\ drop_bomb' = (r.status # "ok")
    /\ UNCHANGED <<pkgPaths, sortedOrder, paths_registry, clobbers, package_names, linkOrder,
                   txVars, regDropped>>
    /\ UNCHANGED nonClobberVars

\* the end of execute_transaction: collect_from_prefix, then post_process
TxPostProcess ==
    /\ postStatus = "none"
    /\ regDropped = "no"
    /\ txOps # <<>>
    /\ \E order \in Perms(ClobberKeys(CurrentRegistry)) :
          LET r == unclobber(CurrentPrefix, CurrentRegistry,
                             collect_from_prefix(conda_meta, sortedOrder), order)
          IN /\ disk' = r.disk
             /\ conda_meta' = r.conda_meta
             /\ postStatus' = r.status
    /\ drop_bomb' = FALSE
    /\ UNCHANGED <<pkgPaths, sortedOrder, paths_registry, clobbers, package_names, linkOrder,
                   txVars, regDropped>>
    /\ UNCHANGED nonClobberVars

\* the InstallDriver and its ClobberRegistry go out of scope: DropBomb's drop
\* panics while the bomb is armed (drop_bomb is created armed at source lines
\* 29-31 and is defused only at line 150)
DropRegistry ==
    /\ regDropped = "no"
    /\ regDropped' = IF drop_bomb THEN "panic" ELSE "dropped"
    /\ UNCHANGED <<pkgPaths, sortedOrder, paths_registry, clobbers, package_names, drop_bomb,
                   disk, conda_meta, linkOrder, postStatus, txVars>>
    /\ UNCHANGED nonClobberVars

TxNext ==
    \/ \E name \in Pkgs : TxRemove(name)
    \/ \E name \in Pkgs : \E new_paths \in SUBSET Paths : TxChange(name, new_paths)
    \/ \E name \in Pkgs : TxInstall(name)
    \/ TxPostProcess

(***************************************************************************)
(* THE REGISTRY TAKEN ALONE                                                *)
(*                                                                         *)
(* A registry built by from_prefix_records from the records of a prefix,   *)
(* then any register_paths calls on it; the prefix itself is left out.     *)
(***************************************************************************)
\* an install-only transaction of the packages of `order`, each declaring
\* the paths declared[name]
RECURSIVE InstallAll(_, _, _)
InstallAll(st, declared, order) ==
    IF order = <<>> THEN st
    ELSE LET op == [kind |-> "install", name |-> Head(order), remove |-> NoRecord,
                    install |-> TRUE, version |-> 1, paths |-> declared[Head(order)]]
             r  == execute_any_operation(st, op)
         IN InstallAll([reg |-> r.reg, prefix |-> r.prefix], declared, Tail(order))

\* the path sets a package declares here: the first k paths, for any k
PathSegments == {1..k : k \in 0..NPaths}

\* the registries from_prefix_records builds from the records that an
\* install-only transaction (linked in ascending order, which is also the
\* sorted order) and its post_process left, read in any order; no package
\* at all gives the registry of ClobberRegistry::default
PrefixRegistries ==
    UNION {
      UNION {
        LET st == InstallAll([reg |-> EmptyRegistry, prefix |-> EmptyPrefix], declared,
                             Ascending(installed))
        IN UNION {
             LET u == unclobber(st.prefix, st.reg,
                                collect_from_prefix(st.prefix.conda_meta, Ascending(Pkgs)), ho)
             IN {from_prefix_records([i \in DOMAIN ro |-> u.conda_meta[ro[i]]]) :
                   ro \in Perms(installed)}
             : ho \in Perms(ClobberKeys(st.reg))}
        : declared \in [installed -> PathSegments]}
      : installed \in SUBSET Pkgs}

RegistryInit ==
    /\ rgRegistry \in PrefixRegistries
    /\ rgCalls = <<>>

\* one register_paths call for the package `name` that declares `paths`
RegisterPaths(name, paths) ==
    /\ Len(rgCalls) < MaxCalls
    /\ \E r \in {register_paths(rgRegistry, name, SetToSeq(paths))} :
          /\ rgRegistry' = r.reg
          /\ rgCalls' = Append(rgCalls,
                               [name    |-> name,
                                known   |-> PositionOf(rgRegistry.package_names, name) # 0,
                                paths   |-> paths,
                                renames |-> r.clobber_paths])
    /\ UNCHANGED nonRegistryVars

RegistryNext == \E name \in Pkgs : \E paths \in PathSegments : RegisterPaths(name, paths)

RegistryIdle ==
    /\ rgRegistry = EmptyRegistry
    /\ rgCalls = <<>>

\* C30: after from_prefix_records on records with pairwise distinct package
\* names and any sequence of register_paths calls, no package name occurs
\* twice in package_names, and a name keeps the index it was given: no
\* position of package_names ever changes its name.
C30_NamesUniqueAndStable ==
    /\ [](\A i, j \in DOMAIN rgRegistry.package_names :
            rgRegistry.package_names[i] = rgRegistry.package_names[j] => i = j)
    /\ [][\A i \in DOMAIN rgRegistry.package_names :
            /\ i \in DOMAIN rgRegistry'.package_names
            /\ rgRegistry'.package_names[i] = rgRegistry.package_names[i]]_vars

\* register_paths was called for a new name and then for a name that was
\* already registered, and the registry holds more than one name
C30_Witness ==
    /\ \E i, j \in DOMAIN rgCalls : i < j /\ ~rgCalls[i].known /\ rgCalls[j].known
    /\ Len(rgRegistry.package_names) > 1

\* a register_paths call is made in this step
RegisterCall == rgCalls' # rgCalls

\* what the call of this step did with path p, for the package at index idx
\* of package_names: "free", "other", "self" name the owner before the call
PathCase(p, idx) ==
    LET e == rgRegistry.paths_registry[p] IN
    IF e = 0 THEN "free" ELSE IF e = idx THEN "self" ELSE "other"

\* C32: register_paths treats each of its paths by exactly one of three
\* cases. A path without owner gets the package as owner and no rename. A
\* path owned by another package keeps its owner, gets the package's index
\* appended to clobbers[path] (created with the owner's index first) and the
\* rename to `<path>__clobber-from-<name>` is returned. A path the package
\* owns itself changes nothing. The renames returned are exactly those of
\* the second case, and paths that were not passed are left alone.
C32_RegisterCases ==
    [][RegisterCall =>
         LET c   == Last(rgCalls')
             idx == PositionOf(rgRegistry'.package_names, c.name)
             old == rgRegistry
             new == rgRegistry'
         IN /\ \A p \in Paths \ c.paths :
                  /\ new.paths_registry[p] = old.paths_registry[p]
                  /\ new.clobbers[p] = old.clobbers[p]
            /\ \A p \in c.paths :
                  /\ PathCase(p, idx) = "free" =>
                        /\ new.paths_registry[p] = idx
                        /\ new.clobbers[p] = old.clobbers[p]
                  /\ PathCase(p, idx) = "other" =>
                        /\ new.paths_registry[p] = old.paths_registry[p]
                        /\ new.clobbers[p] =
                              Append(IF old.clobbers[p] = <<>>
                                     THEN <<old.paths_registry[p]>> ELSE old.clobbers[p], idx)
                  /\ PathCase(p, idx) = "self" =>
                        /\ new.paths_registry[p] = old.paths_registry[p]
                        /\ new.clobbers[p] = old.clobbers[p]
            /\ c.renames = {<<p, clobber_name(p, c.name)>> :
                               p \in {q \in c.paths : PathCase(q, idx) = "other"}}]_vars

\* one call met the three cases: it took a free path, was given a rename for
\* a path of another package and left alone a path it owned
C32_Witness ==
    \E i \in DOMAIN rgCalls :
        LET c   == rgCalls[i]
            idx == PositionOf(rgRegistry.package_names, c.name)
        IN /\ c.known
           /\ c.renames # {}
           /\ \E p \in c.paths :
                 /\ rgRegistry.paths_registry[p] = idx
                 /\ \A r \in c.renames : r[1] # p

(***************************************************************************)
(* Claims about a transaction on an existing prefix                        *)
(***************************************************************************)
\* the packages of the starting prefix that declare `path`
StartRegistrants(path) == {n \in txStart.installed : path \in txStart.pkgPaths[n]}

\* the packages the transaction leaves in the prefix that declare `path`
PresentRegistrants(path) == {n \in Pkgs : conda_meta[n].present /\ path \in pkgPaths[n]}

\* the record of package n lists `file` with the given original_path
RecordLists(n, file, original_path) ==
    /\ conda_meta[n].present
    /\ \E i \in DOMAIN conda_meta[n].paths :
           conda_meta[n].paths[i] = [relative_path |-> file, original_path |-> original_path]

\* the names of the packages the transaction applied operations of `kind` to
OpNames(kind) == {txOps[i].name : i \in {j \in DOMAIN txOps : txOps[j].kind = kind}}

\* the transaction removed the package that held the canonical name of
\* `path`, which other packages of the prefix declare too, and did nothing else
RemovedCanonicalHolder(path) ==
    /\ Len(txOps) = 1
    /\ txOps[1].kind = "remove"
    /\ txStart.disk[CanonicalName(path)] = txOps[1].name
    /\ StartRegistrants(path) \ {txOps[1].name} # {}

\* C11: clobber after remove. When the package holding the canonical path of
\* a shared path is removed from a post-processed prefix, post_process
\* succeeds and the canonical path holds the file of the remaining sharing
\* package that is last in sorted order, whose record lists the canonical
\* path without original_path; every other remaining sharing package keeps
\* its __clobber-from- file and its record entry with original_path = path.
C11_ClobberAfterRemove ==
    postStatus # "none" =>
        \A p \in Paths :
            RemovedCanonicalHolder(p) =>
                LET remaining == StartRegistrants(p) \ {txOps[1].name}
                    last      == LastInSortedOrder(remaining)
                IN /\ postStatus = "ok"
                   /\ disk[CanonicalName(p)] = last
                   /\ RecordLists(last, CanonicalName(p), 0)
                   /\ \A n \in remaining \ {last} :
                          /\ disk[clobber_name(p, n)] = n
                          /\ RecordLists(n, clobber_name(p, n), p)

\* the names of the files in the prefix that belong to `path`
FilesOf(d, path) == {f \in FileNames : f.path = path /\ d[f] # 0}

\* the transaction changed the package that held the canonical name of
\* `path` to a new version that declares `path` too, and did nothing else
ChangedCanonicalHolder(path) ==
    /\ Len(txOps) = 1
    /\ txOps[1].kind = "change"
    /\ txStart.disk[CanonicalName(path)] = txOps[1].name
    /\ path \in pkgPaths[txOps[1].name]

\* C12: clobber under update. When the package holding the canonical path is
\* changed to a new version that provides the same path, register_paths
\* returns no rename for the path, and after post_process the set of file
\* names of the path is the one found before the transaction and the
\* canonical path holds the content of the new version.
C12_ClobberUnderUpdate ==
    \A p \in Paths :
        ChangedCanonicalHolder(p) =>
            /\ p \notin txOps[1].renamed
            /\ postStatus # "none" =>
                   /\ postStatus = "ok"
                   /\ FilesOf(disk, p) = FilesOf(txStart.disk, p)
                   /\ disk[CanonicalName(p)] = Content(txOps[1].name, 2)

\* the transaction changed package `kept`, one of several packages of the
\* prefix sharing `path`, to a new version that still declares `path`, and
\* removed every other package that shared it
ChangedOneRemovedOthers(path, kept) ==
    /\ Cardinality(StartRegistrants(path)) >= 2
    /\ kept \in StartRegistrants(path) \cap OpNames("change")
    /\ path \in pkgPaths[kept]
    /\ StartRegistrants(path) \ {kept} \subseteq OpNames("remove")

\* C13: when a transaction changes one of the packages sharing a path to a
\* version that still provides it and removes all the others, in any order
\* of the operations, post_process succeeds and leaves exactly one file for
\* the path: the canonical name with the content of the new version, and no
\* __clobber-from- file.
C13_UpdateAndRemove ==
    postStatus # "none" =>
        \A p \in Paths : \A kept \in Pkgs :
            ChangedOneRemovedOthers(p, kept) =>
                /\ postStatus = "ok"
                /\ FilesOf(disk, p) = {CanonicalName(p)}
                /\ disk[CanonicalName(p)] = Content(kept, 2)

\* C14: after post_process returned Ok for a transaction of install, remove
\* and change operations run with a registry built from the prefix records,
\* every path that a package present in the prefix declares has a file at
\* its canonical name, and the file belongs to one of the present packages
\* that declare the path.
C14_CanonicalPathPopulated ==
    postStatus = "ok" =>
        \A p \in Paths :
            PresentRegistrants(p) # {} =>
                /\ disk[CanonicalName(p)] # 0
                /\ \E n \in PresentRegistrants(p) :
                       disk[CanonicalName(p)] = Content(n, pkgVersion[n])

\* C27 as the spec states it: the post-process-required marker is cleared
\* only when unclobber succeeds, so it is still set after an unclobber call
\* that returned an error.
C27_MarkerSetAfterError == postStatus = "io_error" => drop_bomb

\* C27: the registry carries the post-process-required marker from its
\* construction; the marker is set exactly until unclobber is called and is
\* cleared by the call whatever it returns, so it is cleared after a call
\* that returned an error; a drop of the registry panics exactly when the
\* marker is set.
C27_MarkerClearedByCall ==
    /\ drop_bomb <=> postStatus = "none"
    /\ regDropped # "no" => (regDropped = "panic" <=> drop_bomb)

\* unclobber returned an error and the registry was then dropped
C27_Witness == postStatus = "io_error" /\ regDropped = "dropped"

\* C29: post_process tolerates absent files: unclobber does not return an
\* error because the provisional holder's file at the canonical path or the
\* winner's __clobber-from- file is absent (the only error unclobber returns
\* here is the failure of a rename of an absent file).
C29_AbsentFilesTolerated == postStatus # "io_error"

\* in the registry reg every path with an entry in clobbers has an owner, and
\* the owner is the first element of the entry
OwnerFirst(reg) ==
    \A p \in Paths :
        reg.clobbers[p] # <<>> =>
            /\ reg.paths_registry[p] # 0
            /\ reg.clobbers[p][1] = reg.paths_registry[p]

\* the packages that have a record in the prefix
PresentPkgs == {n \in Pkgs : conda_meta[n].present}

\* C31: in every registry that from_prefix_records builds and register_paths
\* calls extend, every path with an entry in clobbers has an owner, and the
\* first element of clobbers[path] is that owner. The registries are the one
\* of the running transaction and the one the next install driver builds
\* with from_prefix_records from the records a finished transaction left,
\* read in any order.
C31_OwnerFirst ==
    /\ OwnerFirst(CurrentRegistry)
    /\ postStatus = "ok" =>
          \A ro \in Perms(PresentPkgs) :
              OwnerFirst(from_prefix_records([i \in DOMAIN ro |-> conda_meta[ro[i]]]))

\* the names registered for `path` in clobbers
ClobberedByNames(path) == {package_names[clobbers[path][i]] : i \in DOMAIN clobbers[path]}

\* the paths of clobbers none of whose registrants has a record in the prefix
WithoutRegistrant ==
    {p \in ClobberKeys(CurrentRegistry) :
        \A n \in ClobberedByNames(p) : ~conda_meta[n].present}

\* post_process runs in this step
PostProcessCall == postStatus = "none" /\ postStatus' # "none"

\* unclobber after it went through the entries of clobbers that come before
\* `path` in the iteration order `order`
UnclobberUpTo(order, path) ==
    UnclobberLoop([disk |-> disk, conda_meta |-> conda_meta, status |-> "ok"],
                  CurrentRegistry, collect_from_prefix(conda_meta, sortedOrder),
                  SubSeq(order, 1, PositionOf(order, path) - 1))

NTasks == 3

Tasks == 1..NTasks
Chans == 1..NTasks

\* the values create_subdir can return in Ok
Subdirs == {"Found", "NotFound"}

Vacant == [state |-> "vacant", ch |-> 0, val |-> "none"]
Pending(ch) == [state |-> "pending", ch |-> ch, val |-> "none"]
Fetched(v) == [state |-> "fetched", ch |-> 0, val |-> v]

NoReturn == [kind |-> "none", val |-> "none"]
ReturnOk(v) == [kind |-> "ok", val |-> v]
\* GatewayError::IoError("a coalesced request failed")
CoalescedFailure == [kind |-> "coalesced_failure", val |-> "none"]
\* the error create_subdir returned
LoadError == [kind |-> "load_error", val |-> "none"]

GatewayInit ==
    /\ gwEntry = Vacant
    /\ gwLock = 0
    /\ gwStrong = [c \in Chans |-> 0]
    /\ gwHeld = [t \in Tasks |-> 0]
    /\ gwSub = [t \in Tasks |-> FALSE]
    /\ gwMsg = [t \in Tasks |-> "none"]
    /\ gwPc = [t \in Tasks |-> "start"]
    /\ gwRet = [t \in Tasks |-> NoReturn]
    /\ gwNextCh = 0
    /\ gwOutcome = [c \in Chans |-> "none"]
    /\ gwVia = [t \in Tasks |-> "none"]

\* a variant in which the weak sender never upgrades
upgradeDead(ch) == FALSE

\* a variant in which the weak sender upgrades also after its last Arc was
\* dropped
upgradeAlways(ch) == TRUE

\* Weak::upgrade on the sender stored in a Pending entry
upgrade(ch) == gwStrong[ch] > 0

\* broadcast::channel(1), Arc::new(sender), entry.insert(Pending(downgrade))
BecomeLoader(t) ==
    /\ gwNextCh' = gwNextCh + 1
    /\ gwStrong' = [gwStrong EXCEPT ![gwNextCh + 1] = 1]
    /\ gwHeld' = [gwHeld EXCEPT ![t] = gwNextCh + 1]
    /\ gwEntry' = Pending(gwNextCh + 1)
    /\ gwOutcome' = [gwOutcome EXCEPT ![gwNextCh + 1] = "loading"]
    /\ gwPc' = [gwPc EXCEPT ![t] = "loading"]
    /\ UNCHANGED <<gwLock, gwSub, gwMsg, gwRet>>
    /\ UNCHANGED nonGatewayVars

\* Entry::Vacant: the guard is taken and released within the match arm
EnterVacant(t) ==
    /\ gwPc[t] = "start"
    /\ gwLock = 0
    /\ gwEntry.state = "vacant"
    /\ gwVia' = [gwVia EXCEPT ![t] = "vacant"]
    /\ BecomeLoader(t)

\* Entry::Occupied, Pending, the sender is dead: the task replaces the entry
EnterDead(t) ==
    /\ gwPc[t] = "start"
    /\ gwLock = 0
    /\ gwEntry.state = "pending"
    /\ ~upgrade(gwEntry.ch)
    /\ gwVia' = [gwVia EXCEPT ![t] = "dead"]
    /\ BecomeLoader(t)

\* Entry::Occupied, Pending, the upgrade succeeds: the task now holds an
\* Arc<Sender> and still holds the entry guard
EnterUpgrade(t) ==
    /\ gwPc[t] = "start"
    /\ gwLock = 0
    /\ gwEntry.state = "pending"
    /\ upgrade(gwEntry.ch)
    /\ gwLock' = t
    /\ gwStrong' = [gwStrong EXCEPT ![gwEntry.ch] = @ + 1]
    /\ gwHeld' = [gwHeld EXCEPT ![t] = gwEntry.ch]
    /\ gwPc' = [gwPc EXCEPT ![t] = "upgraded"]
    /\ gwVia' = [gwVia EXCEPT ![t] = "upgrade"]
    /\ UNCHANGED <<gwEntry, gwSub, gwMsg, gwRet, gwNextCh, gwOutcome>>
    /\ UNCHANGED nonGatewayVars

\* Entry::Occupied, Fetched: return Ok(records.clone())
EnterFetched(t) ==
    /\ gwPc[t] = "start"
    /\ gwLock = 0
    /\ gwEntry.state = "fetched"
    /\ gwPc' = [gwPc EXCEPT ![t] = "done"]
    /\ gwRet' = [gwRet EXCEPT ![t] = ReturnOk(gwEntry.val)]
    /\ gwVia' = [gwVia EXCEPT ![t] = "fetched"]
    /\ UNCHANGED <<gwEntry, gwLock, gwStrong, gwHeld, gwSub, gwMsg, gwNextCh, gwOutcome>>
    /\ UNCHANGED nonGatewayVars

\* drop(entry)
DropEntry(t) ==
    /\ gwPc[t] = "upgraded"
    /\ gwLock = t
    /\ gwLock' = 0
    /\ gwPc' = [gwPc EXCEPT ![t] = "unlocked"]
    /\ UNCHANGED <<gwEntry, gwStrong, gwHeld, gwSub, gwMsg, gwRet, gwNextCh, gwOutcome, gwVia>>
    /\ UNCHANGED nonGatewayVars

\* sender.subscribe(): the new receiver sees only later values
Subscribe(t) ==
    /\ gwPc[t] = "unlocked"
    /\ gwSub' = [gwSub EXCEPT ![t] = TRUE]
    /\ gwPc' = [gwPc EXCEPT ![t] = "waiting"]
    /\ UNCHANGED <<gwEntry, gwLock, gwStrong, gwHeld, gwMsg, gwRet, gwNextCh, gwOutcome, gwVia>>
    /\ UNCHANGED nonGatewayVars

\* the receiver can complete recv(): a value is queued, or the channel is
\* closed (every Arc<Sender> of the channel has been dropped)
RecvReady(t) == gwMsg[t] # "none" \/ gwStrong[gwHeld[t]] = 0

\* recv().await completes and the task returns; the receiver and the
\* Arc<Sender> the task holds are dropped on return
Recv(t) ==
    /\ gwPc[t] = "waiting"
    /\ RecvReady(t)
    /\ gwRet' = [gwRet EXCEPT ![t] =
                    IF gwMsg[t] # "none" THEN ReturnOk(gwMsg[t]) ELSE CoalescedFailure]
    /\ gwStrong' = [gwStrong EXCEPT ![gwHeld[t]] = IF @ > 0 THEN @ - 1 ELSE 0]
    /\ gwHeld' = [gwHeld EXCEPT ![t] = 0]
    /\ gwSub' = [gwSub EXCEPT ![t] = FALSE]
    /\ gwMsg' = [gwMsg EXCEPT ![t] = "none"]
    /\ gwPc' = [gwPc EXCEPT ![t] = "done"]
    /\ UNCHANGED <<gwEntry, gwLock, gwNextCh, gwOutcome, gwVia>>
    /\ UNCHANGED nonGatewayVars

\* create_subdir returns Ok(subdir)
CreateOk(t, v) ==
    /\ gwPc[t] = "loading"
    /\ gwPc' = [gwPc EXCEPT ![t] = "created"]
    /\ gwRet' = [gwRet EXCEPT ![t] = ReturnOk(v)]
    /\ UNCHANGED <<gwEntry, gwLock, gwStrong, gwHeld, gwSub, gwMsg, gwNextCh, gwOutcome, gwVia>>
    /\ UNCHANGED nonGatewayVars

\* create_subdir returns Err (or the loading future is dropped): the `?`
\* returns and drops the sender; the entry stays Pending
CreateErr(t) ==
    /\ gwPc[t] = "loading"
    /\ gwPc' = [gwPc EXCEPT ![t] = "done"]
    /\ gwRet' = [gwRet EXCEPT ![t] = LoadError]
    /\ gwStrong' = [gwStrong EXCEPT ![gwHeld[t]] = @ - 1]
    /\ gwOutcome' = [gwOutcome EXCEPT ![gwHeld[t]] = "failed"]
    /\ gwHeld' = [gwHeld EXCEPT ![t] = 0]
    /\ UNCHANGED <<gwEntry, gwLock, gwSub, gwMsg, gwNextCh, gwVia>>
    /\ UNCHANGED nonGatewayVars

\* self.subdirs.insert(key, Fetched(subdir)): needs the entry guard
Store(t) ==
    /\ gwPc[t] = "created"
    /\ gwLock = 0
    /\ gwEntry' = Fetched(gwRet[t].val)
    /\ gwPc' = [gwPc EXCEPT ![t] = "stored"]
    /\ UNCHANGED <<gwLock, gwStrong, gwHeld, gwSub, gwMsg, gwRet, gwNextCh, gwOutcome, gwVia>>
    /\ UNCHANGED nonGatewayVars

\* the receivers that get a value sent on channel ch
Receivers(ch) == {u \in Tasks : gwHeld[u] = ch /\ gwSub[u]}

\* sender.send(subdir), then return Ok(subdir), which drops the sender
Send(t) ==
    /\ gwPc[t] = "stored"
    /\ gwMsg' = [u \in Tasks |-> IF u \in Receivers(gwHeld[t]) THEN gwRet[t].val ELSE gwMsg[u]]
    /\ gwStrong' = [gwStrong EXCEPT ![gwHeld[t]] = @ - 1]
    /\ gwOutcome' = [gwOutcome EXCEPT ![gwHeld[t]] = "published"]
    /\ gwHeld' = [gwHeld EXCEPT ![t] = 0]
    /\ gwPc' = [gwPc EXCEPT ![t] = "done"]
    /\ UNCHANGED <<gwEntry, gwLock, gwSub, gwRet, gwNextCh, gwVia>>
    /\ UNCHANGED nonGatewayVars

TaskStep(t) ==
    \/ EnterVacant(t)
    \/ EnterDead(t)
    \/ EnterUpgrade(t)
    \/ EnterFetched(t)
    \/ DropEntry(t)
    \/ Subscribe(t)
    \/ Recv(t)
    \/ \E v \in Subdirs : CreateOk(t, v)
    \/ CreateErr(t)
    \/ Store(t)
    \/ Send(t)

GatewayNext == \E t \in Tasks : TaskStep(t)

(***************************************************************************)
(* JLAP PATCHING ENGINE: patch_repo_data                                   *)
(*                                                                         *)
(* A version of repodata.json is a number; Hash(d) stands for the          *)
(* Blake2b-256 of version d (0 is the all-zero default digest).  A JSON    *)
(* patch is the number it adds to the version.  A line of the JLAP file is *)
(* a record [kind, a, b, c, len]: a hex line carries its value in a, a     *)
(* patch line `from`, `to` and the patch in a, b, c, the footer `latest`   *)
(* in a; len is its length in bytes without the newline.  A keyed hash is  *)
(* the injective pairing Mac of its key and its data.                      *)
(* The server keeps the log [iv, patch 1..n, footer, checksum] and only    *)
(* appends patch lines or starts a new log; the network may lose a         *)
(* request or alter a line of a response.                                  *)
(***************************************************************************)
\* the number of patch lines the server appends in all
MaxPatches == 2
\* the number of times the server starts a new log
MaxResets == 1
\* the number of patch_repo_data calls of the client
MaxSessions == 2

JLAP_FOOTER_OFFSET == 2

JLAP_START_POSITION == 0

\* JLAP_START_INITIALIZATION_VECTOR, [0; 32]
JLAP_START_INITIALIZATION_VECTOR == 0

\* StatusCode::RANGE_NOT_SATISFIABLE
RANGE_NOT_SATISFIABLE == 416

\* Blake2b-256 of a version of repodata.json
Hash(d) == d + 1

\* the byte length of a line, without its newline: the hex lines have one
\* length, the footers another, the patch lines differ in length
LineLen(kind, b) ==
    CASE kind = "hex" -> 2 [] kind = "patch" -> 3 + (b % 2) [] kind = "footer" -> 2 [] OTHER -> 0

Line(kind, a, b, c) == [kind |-> kind, a |-> a, b |-> b, c |-> c, len |-> LineLen(kind, b)]

\* the rest of a line whose first bytes were cut off by the range
Fragment(len) == [kind |-> "junk", a |-> 0, b |-> 0, c |-> 0, len |-> len]

\* the bytes of a patch line, as a number below MacBase - 1
PatchCode(line) ==
    LET k == MaxPatches + MaxResets + 4
    IN (line.a * k + line.b) * k + line.c

MacBase == (MaxPatches + MaxResets + 4) * (MaxPatches + MaxResets + 4) * (MaxPatches + MaxResets + 4) + 1

\* blake2b_256_hash_with_key(data, key)
blake2b_256_hash_with_key(line, key) == key * MacBase + PatchCode(line) + 1

\* the running keyed hash of validate_checksum over `lines`, started from iv
RECURSIVE RunningMac(_, _)
RunningMac(iv, lines) ==
    IF lines = <<>> THEN iv
    ELSE RunningMac(blake2b_256_hash_with_key(Head(lines), iv), Tail(lines))

\* the repodata.jlap file of the server
ServerLog(iv, base, n) ==
    LET patches == [i \in 1..n |-> Line("patch", Hash(base + i - 1), Hash(base + i), 1)]
    IN <<Line("hex", iv, 0, 0)>> \o patches \o
       <<Line("footer", Hash(base + n), 0, 0), Line("hex", RunningMac(iv, patches), 0, 0)>>

RECURSIVE SumLen(_)
SumLen(lines) == IF lines = <<>> THEN 0 ELSE Head(lines).len + 1 + SumLen(Tail(lines))

\* the size of the file: every line but the last ends with a newline
TotalBytes(lines) == SumLen(lines) - 1

\* the lines of the file from byte `pos` on
RECURSIVE BytesFrom(_, _)
BytesFrom(lines, pos) ==
    IF pos = 0 \/ lines = <<>> THEN lines
    ELSE IF pos >= Head(lines).len + 1
         THEN BytesFrom(Tail(lines), pos - (Head(lines).len + 1))
         ELSE <<Fragment(Head(lines).len - pos)>> \o Tail(lines)

\* a log in which the last patch line was replaced, its content ("forged")
\* or the hash it starts from ("forged_from"), and the checksum line
\* recomputed with the iv of the log, which is public
Forge(log, how) ==
    LET n       == Len(log) - 3
        forged  == IF how = "forged" THEN [log[n + 1] EXCEPT !.c = @ + 1]
                   ELSE [log[n + 1] EXCEPT !.a = Hash(MaxPatches + 1)]
        patches == [i \in 1..n |-> IF i = n THEN forged ELSE log[i + 1]]
    IN IF n >= 1
       THEN <<log[1]>> \o patches \o
            <<log[Len(log) - 1], Line("hex", RunningMac(log[1].a, patches), 0, 0)>>
       ELSE log

\* what the network does to the lines of a response
Tamper(lines, how) ==
    IF how = "checksum" /\ lines # <<>> /\ Last(lines).kind = "hex"
    THEN [lines EXCEPT ![Len(lines)].a = @ + 1]
    ELSE IF how = "patch" /\ \E i \in DOMAIN lines : lines[i].kind = "patch"
    THEN LET i == CHOOSE i \in DOMAIN lines :
                     lines[i].kind = "patch" /\ \A j \in 1..(i - 1) : lines[j].kind # "patch"
         IN [lines EXCEPT ![i].b = @ + 1]
    ELSE lines

Tamperings == {"none", "checksum", "patch", "forged", "forged_from"}

\* fetch_jlap: GET with `Range: bytes=<pos>-`.  send() gives Err only when
\* no response arrived (such an error carries no status); a response with
\* any status, 416 included, is Ok(response).  A range that starts at or
\* after the end of the file is answered 416 with an empty body.
fetch_jlap(log, pos, lost, how) ==
    IF lost THEN [ok |-> FALSE, status |-> 0, lines |-> <<>>]
    ELSE IF pos >= TotalBytes(log)
    THEN [ok |-> TRUE, status |-> RANGE_NOT_SATISFIABLE, lines |-> <<Fragment(0)>>]
    ELSE [ok |-> TRUE, status |-> 206,
          lines |-> Tamper(BytesFrom(IF how \in {"forged", "forged_from"} THEN Forge(log, how) ELSE log,
                                   pos), how)]

\* a variant that tries again from byte 0 after any failed request
fetch_jlap_retry_any(log, position, net) ==
    LET r1 == fetch_jlap(log, position, net.lost1, net.how) IN
    IF r1.ok
    THEN [ok |-> TRUE, response |-> r1, position |-> position,
          requests |-> <<position>>, first |-> r1]
    ELSE LET r2 == fetch_jlap(log, 0, net.lost2, net.how) IN
         [ok |-> r2.ok, response |-> r2, position |-> 0,
          requests |-> <<position, 0>>, first |-> r1]

\* fetch_jlap_with_retry; error.status().unwrap_or_default() of an error
\* without status is StatusCode::OK
fetch_jlap_with_retry(log, position, net) ==
    LET r1 == fetch_jlap(log, position, net.lost1, net.how) IN
    IF r1.ok
    THEN [ok |-> TRUE, response |-> r1, position |-> position,
          requests |-> <<position>>, first |-> r1]
    ELSE IF (IF r1.status = 0 THEN 200 ELSE r1.status) = RANGE_NOT_SATISFIABLE /\ position # 0
    THEN LET r2 == fetch_jlap(log, 0, net.lost2, net.how) IN
         IF r2.ok
         THEN [ok |-> TRUE, response |-> r2, position |-> 0,
               requests |-> <<position, 0>>, first |-> r1]
         ELSE [ok |-> FALSE, response |-> r2, position |-> 0,
               requests |-> <<position, 0>>, first |-> r1]
    ELSE [ok |-> FALSE, response |-> r1, position |-> position,
          requests |-> <<position>>, first |-> r1]

NoState == [some |-> FALSE, pos |-> 0, iv |-> 0, footer |-> 0]

JLAPState(pos, iv, footer) == [some |-> TRUE, pos |-> pos, iv |-> iv, footer |-> footer]

get_position_and_initialization_vector(state) ==
    IF state.some
    THEN [position |-> state.pos, initialization_vector |-> state.iv]
    ELSE [position |-> JLAP_START_POSITION,
          initialization_vector |-> JLAP_START_INITIALIZATION_VECTOR]

\* a variant that counts the lines without their newline
get_bytes_offset_no_newline(lines) ==
    IF Len(lines) >= JLAP_FOOTER_OFFSET
    THEN SumLen(SubSeq(lines, 1, Len(lines) - JLAP_FOOTER_OFFSET))
         - (Len(lines) - JLAP_FOOTER_OFFSET)
    ELSE 0

\* get_bytes_offset
get_bytes_offset(lines) ==
    IF Len(lines) >= JLAP_FOOTER_OFFSET
    THEN SumLen(SubSeq(lines, 1, Len(lines) - JLAP_FOOTER_OFFSET))
    ELSE 0

JlapError(err) ==
    [ok |-> FALSE, err |-> err, initialization_vector |-> 0, patches |-> <<>>, footer |-> 0,
     checksum |-> 0, bytes_offset |-> 0, offset |-> 0]

\* JLAP::new
JLAP_new(lines, initialization_vector) ==
    LET length == Len(lines) IN
    IF length > JLAP_FOOTER_OFFSET
    THEN LET is_hex  == lines[1].kind = "hex"
             offset  == IF is_hex THEN 1 ELSE 0
             iv      == IF is_hex THEN lines[1].a ELSE initialization_vector
             footer  == lines[length - 1]
             patches == SubSeq(lines, offset + 1, length - JLAP_FOOTER_OFFSET)
         IN IF footer.kind # "footer" THEN JlapError("JSONParse")
            ELSE IF \E i \in DOMAIN patches : patches[i].kind # "patch"
            THEN JlapError("JSONParse")
            ELSE IF patches = <<>> THEN JlapError("NoPatchesFound")
            ELSE [ok |-> TRUE, err |-> "none", initialization_vector |-> iv,
                  patches |-> patches, footer |-> footer.a,
                  checksum |-> IF lines[length].kind = "hex" THEN lines[length].a ELSE 0,
                  bytes_offset |-> get_bytes_offset(lines), offset |-> offset]
    ELSE JlapError("NoPatchesFound")

\* JLAP::validate_checksum
validate_checksum(jlap) ==
    LET new_iv == RunningMac(jlap.initialization_vector, jlap.patches) IN
    IF jlap.patches # <<>>
    THEN IF new_iv # jlap.checksum
         THEN [ok |-> FALSE, err |-> "ChecksumMismatch", new_iv |-> new_iv]
         ELSE [ok |-> TRUE, err |-> "none", new_iv |-> new_iv]
    ELSE [ok |-> FALSE, err |-> "NoPatchesFound", new_iv |-> new_iv]

\* find_current_patch_index, 1-based, 0 for None
find_current_patch_index(patches, hash) ==
    IF \E i \in DOMAIN patches : patches[i].a = hash
    THEN CHOOSE i \in DOMAIN patches :
            patches[i].a = hash /\ \A j \in 1..(i - 1) : patches[j].a # hash
    ELSE 0

\* the content of a file that File::create truncated and write_all did not
\* fill: it is no JSON document
Torn(doc) == 0 - 1

\* json_patch::patch applied for every patch in turn
RECURSIVE PatchAll(_, _)
PatchAll(patches, doc) ==
    IF patches = <<>> THEN doc
    ELSE PatchAll(Tail(patches), doc + Head(patches).c)

\* what the file system and json_patch do during one apply_jlap_patches
FsOutcomes == {"ok", "patch_fails", "create_fails", "write_fails"}

\* apply_jlap_patches: its result and the content it leaves in the cached
\* file, which it opens with File::create and writes in place
apply_jlap_patches(patches, doc, fs) ==
    IF doc = Torn(doc) THEN [ok |-> FALSE, err |-> "JSONParse", doc |-> doc, written |-> FALSE]
    ELSE IF fs = "patch_fails"
    THEN [ok |-> FALSE, err |-> "JSONPatch", doc |-> doc, written |-> FALSE]
    ELSE IF fs = "create_fails"
    THEN [ok |-> FALSE, err |-> "FileSystem", doc |-> doc, written |-> FALSE]
    ELSE IF fs = "write_fails"
    THEN [ok |-> FALSE, err |-> "FileSystem", doc |-> Torn(doc), written |-> TRUE]
    ELSE [ok |-> TRUE, err |-> "none", doc |-> PatchAll(patches, doc), written |-> TRUE]

\* a variant that applies every patch of the response
apply_from_start(jlap, doc, hash, fs) ==
    LET idx == find_current_patch_index(jlap.patches, hash) IN
    IF idx # 0
    THEN LET r == apply_jlap_patches(jlap.patches, doc, fs)
         IN IF ~r.ok THEN r
            ELSE IF Hash(r.doc) # jlap.footer
            THEN [ok |-> FALSE, err |-> "HashesNotMatching", doc |-> r.doc, written |-> TRUE]
            ELSE [ok |-> TRUE, err |-> "none", doc |-> r.doc, written |-> TRUE]
    ELSE [ok |-> FALSE, err |-> "NoHashFound", doc |-> doc, written |-> FALSE]

\* JLAP::apply
apply(jlap, doc, hash, fs) ==
    LET idx == find_current_patch_index(jlap.patches, hash) IN
    IF idx # 0
    THEN LET r == apply_jlap_patches(SubSeq(jlap.patches, idx, Len(jlap.patches)), doc, fs)
         IN IF ~r.ok THEN r
            ELSE IF Hash(r.doc) # jlap.footer
            THEN [ok |-> FALSE, err |-> "HashesNotMatching", doc |-> r.doc, written |-> TRUE]
            ELSE [ok |-> TRUE, err |-> "none", doc |-> r.doc, written |-> TRUE]
    ELSE [ok |-> FALSE, err |-> "NoHashFound", doc |-> doc, written |-> FALSE]

\* a variant that always keeps the initialization vector of the JLAP object
get_state_keep_iv(jlap, position, iv) ==
    JLAPState(position + jlap.bytes_offset, jlap.initialization_vector, jlap.footer)

\* JLAP::get_state
get_state(jlap, position, iv) ==
    JLAPState(position + jlap.bytes_offset,
              IF iv.some THEN iv.value ELSE jlap.initialization_vector,
              jlap.footer)

Outcome(result, err, state, doc, fetched, jlap, validated, written) ==
    [result |-> result, err |-> err, state |-> state, doc |-> doc,
     requests |-> fetched.requests, position |-> fetched.position,
     status |-> fetched.response.status, lines |-> fetched.response.lines,
     first_status |-> fetched.first.status, first_ok |-> fetched.first.ok,
     jlap |-> jlap, validated |-> validated, written |-> written]

\* patch_repo_data: what it returns and what it leaves in the cached file
patch_repo_data(log, repo_data_state, doc, net) ==
    LET start   == get_position_and_initialization_vector(repo_data_state.jlap)
        fetched == fetch_jlap_with_retry(log, start.position, net)
        jlap    == JLAP_new(fetched.response.lines, start.initialization_vector)
        hash    == repo_data_state.blake2_hash
    IN IF ~fetched.ok
       THEN Outcome("Err", "HTTP", NoState, doc, fetched, JlapError("none"), FALSE, FALSE)
       ELSE IF ~jlap.ok
       THEN Outcome("Err", jlap.err, NoState, doc, fetched, jlap, FALSE, FALSE)
       ELSE IF jlap.footer = hash
       THEN Outcome("Ok", "none",
                    get_state(jlap, fetched.position, [some |-> FALSE, value |-> 0]),
                    doc, fetched, jlap, FALSE, FALSE)
       ELSE LET checked == validate_checksum(jlap) IN
            IF ~checked.ok
            THEN Outcome("Err", checked.err, NoState, doc, fetched, jlap, FALSE, FALSE)
            ELSE LET applied == apply(jlap, doc, hash, net.fs) IN
                 IF ~applied.ok
                 THEN Outcome("Err", applied.err, NoState, applied.doc, fetched, jlap,
                              TRUE, applied.written)
                 ELSE Outcome("Ok", "none",
                              get_state(jlap, fetched.position,
                                        [some |-> TRUE, value |-> checked.new_iv]),
                              applied.doc, fetched, jlap, TRUE, applied.written)

NoCall ==
    [result |-> "none", err |-> "none", state |-> NoState, doc |-> 0,
     requests |-> <<>>, position |-> 0, status |-> 0, lines |-> <<>>,
     first_status |-> 0, first_ok |-> TRUE,
     jlap |-> JlapError("none"), validated |-> FALSE, written |-> FALSE,
     before |-> [jlap |-> NoState, blake2_hash |-> 0, doc |-> 0],
     net |-> [lost1 |-> FALSE, lost2 |-> FALSE, how |-> "none", fs |-> "ok"]]

\* a client whose cache holds the version the server log starts from and
\* that has no JLAP state yet; the server log has no patch line yet
JlapInit ==
    /\ jSrvIv = 0
    /\ jSrvBase = 0
    /\ jSrvN = 0
    /\ jDoc = 0
    /\ jHash = Hash(0)
    /\ jState = NoState
    /\ jSessions = 0
    /\ jLast = NoCall

\* the server publishes a new version of repodata.json: one more patch line,
\* the footer and the checksum rewritten
ServerAppend ==
    /\ jSrvBase + jSrvN < MaxPatches
    /\ jSrvN' = jSrvN + 1
    /\ UNCHANGED <<jSrvIv, jSrvBase, jDoc, jHash, jState, jSessions, jLast>>
    /\ UNCHANGED nonJlapVars

\* the server starts a new log from its current version, with a new iv
ServerReset ==
    /\ jSrvIv < MaxResets
    /\ jSrvIv' = jSrvIv + 1
    /\ jSrvBase' = jSrvBase + jSrvN
    /\ jSrvN' = 0
    /\ UNCHANGED <<jDoc, jHash, jState, jSessions, jLast>>
    /\ UNCHANGED nonJlapVars

\* one call of patch_repo_data; on Ok the caller stores the returned state
\* and the digest of the cached file in the .state.json of the cache
PatchRepoData(net) ==
    /\ jSessions < MaxSessions
    /\ \E before \in {[jlap |-> jState, blake2_hash |-> jHash, doc |-> jDoc]},
          r \in {patch_repo_data(ServerLog(jSrvIv, jSrvBase, jSrvN),
                                 [jlap |-> jState, blake2_hash |-> jHash], jDoc, net)} :
          /\ jDoc' = r.doc
          /\ jState' = IF r.result = "Ok" THEN r.state ELSE jState
          /\ jHash' = IF r.result = "Ok" THEN Hash(r.doc) ELSE jHash
          /\ jLast' = [result |-> r.result, err |-> r.err, state |-> r.state, doc |-> r.doc,
                       requests |-> r.requests, position |-> r.position,
                       status |-> r.status, lines |-> r.lines,
                       first_status |-> r.first_status, first_ok |-> r.first_ok,
                       jlap |-> r.jlap,
                       validated |-> r.validated, written |-> r.written,
                       before |-> before, net |-> net]
    /\ jSessions' = jSessions + 1
    /\ UNCHANGED <<jSrvIv, jSrvBase, jSrvN>>
    /\ UNCHANGED nonJlapVars

\* the fallback of the caller: download repodata.json in full, which leaves
\* the cache with the current version and without JLAP state
FullFetch ==
    /\ jDoc # jSrvBase + jSrvN \/ jState # NoState
    /\ jDoc' = jSrvBase + jSrvN
    /\ jHash' = Hash(jSrvBase + jSrvN)
    /\ jState' = NoState
    /\ UNCHANGED <<jSrvIv, jSrvBase, jSrvN, jSessions, jLast>>
    /\ UNCHANGED nonJlapVars

\* the number of faults of one call
Faults(net) ==
    (IF net.lost1 THEN 1 ELSE 0) + (IF net.lost2 THEN 1 ELSE 0)
    + (IF net.how # "none" THEN 1 ELSE 0) + (IF net.fs # "ok" THEN 1 ELSE 0)

\* the environment of one call: at most one fault happens during a call
Nets == {net \in [lost1 : BOOLEAN, lost2 : BOOLEAN, how : Tamperings, fs : FsOutcomes] :
            Faults(net) <= 1}

JlapNext ==
    \/ ServerAppend
    \/ ServerReset
    \/ FullFetch
    \/ \E net \in Nets : PatchRepoData(net)

\* the entry is left over from a load that failed and nobody holds its sender
FailedEntry ==
    /\ gwEntry.state = "pending"
    /\ gwOutcome[gwEntry.ch] = "failed"
    /\ gwStrong[gwEntry.ch] = 0

\* task t passes the match on the entry in this step
Enters(t) == gwPc[t] = "start" /\ gwPc'[t] # "start"

\* C37: a failed subdir load is not cached. When the loader's create_subdir
\* returned an error, the entry stays Pending with a dead sender; once no
\* task holds that sender any more, the next get_or_create_subdir for the
\* key becomes the new loader with a new sender and runs create_subdir
\* again, and the error of the earlier load is not what it returns: a task
\* returns a load error only from a create_subdir it ran itself.
C37_FailedLoadNotCached ==
    /\ [][\A t \in Tasks :
            (Enters(t) /\ FailedEntry) =>
                /\ gwPc'[t] = "loading"
                /\ gwEntry'.state = "pending"
                /\ gwEntry'.ch # gwEntry.ch
                /\ gwHeld'[t] = gwEntry'.ch
                /\ gwOutcome'[gwEntry'.ch] = "loading"
                /\ gwRet'[t] = NoReturn]_vars
    /\ [](\A t \in Tasks :
            /\ gwRet[t] = LoadError => gwVia[t] \in {"vacant", "dead"}
            /\ gwVia[t] = "dead" => gwRet[t] # CoalescedFailure)

\* a task found the entry of a failed load, loaded the subdir again and
\* returned it
C37_Witness ==
    \E t \in Tasks :
        /\ gwVia[t] = "dead"
        /\ gwRet[t].kind = "ok"
        /\ \E c \in Chans : gwOutcome[c] = "failed"

\* the package that owns path p in the registry, 0 if it has no owner
OwnerName(p) ==
    IF paths_registry[p] = 0 THEN 0 ELSE package_names[paths_registry[p]]

\* C39: unclobber leaves the owner map, the clobbers map and the package
\* list of the registry unchanged: the registry after post-process equals
\* the registry before it and does not reflect the renames made on disk.
C39_RegistryUnchanged ==
    [][PostProcessCall =>
          /\ paths_registry' = paths_registry
          /\ clobbers' = clobbers
          /\ package_names' = package_names]_vars

\* post-process moved the file of the owner of a path to its clobber name
\* and the registry still has that package as the owner, with the clobber
\* recorded
C39_Witness ==
    /\ postStatus = "ok"
    /\ \E p \in Paths :
          /\ clobbers[p] # <<>>
          /\ OwnerName(p) # 0
          /\ disk[[path |-> p, clob |-> OwnerName(p)]] # 0

\* an operation of the transaction is executed in this step
OperationStep == Len(txOps') = Len(txOps) + 1

\* C38: register_paths never changes or removes an owner entry. A path that
\* has an owner keeps it for the lifetime of the registry, also after the
\* owning package was removed from the prefix, so a different package that
\* registers the path later in the transaction is given a
\* `__clobber-from-` rename for it.
C38_OwnerKept ==
    [][/\ \A p \in Paths :
             paths_registry[p] # 0 =>
                 /\ paths_registry'[p] = paths_registry[p]
                 /\ package_names'[paths_registry[p]] = package_names[paths_registry[p]]
       /\ OperationStep =>
             LET op == Last(txOps') IN
             op.kind # "remove" =>
                 \A p \in pkgPaths'[op.name] :
                     (OwnerName(p) # 0 /\ OwnerName(p) # op.name) => p \in op.renamed]_vars

\* the owner of a path was removed from the prefix and another package that
\* registered the path afterwards was given a rename
C38_Witness ==
    \E i, j \in DOMAIN txOps : \E p \in Paths :
        /\ i < j
        /\ txOps[i].kind = "remove"
        /\ OwnerName(p) = txOps[i].name
        /\ ~conda_meta[txOps[i].name].present
        /\ txOps[j].kind = "install"
        /\ p \in txOps[j].renamed

PatchesFromCurrent ==
    {i \in DOMAIN jLast.jlap.patches : jLast.jlap.patches[i].a = jLast.before.blake2_hash}

\* the document after the change of every patch of `patches` from index k on
RECURSIVE AppliedFrom(_, _, _)
AppliedFrom(patches, k, doc) ==
    IF k > Len(patches) THEN doc ELSE AppliedFrom(patches, k + 1, doc + patches[k].c)

\* C33: when the footer differs from the current hash and the checksum
\* validates, apply takes the smallest index k whose patch starts from the
\* current hash and applies exactly the patches from k on, in log order; if
\* no patch starts from the current hash it fails with NoHashFound and
\* leaves the cached file as it was.
C33_ApplyFromCurrent ==
    jLast.validated =>
        IF PatchesFromCurrent = {}
        THEN /\ jLast.err = "NoHashFound"
             /\ ~jLast.written
             /\ jLast.doc = jLast.before.doc
        ELSE LET k == CHOOSE i \in PatchesFromCurrent : \A j \in PatchesFromCurrent : i <= j
             IN /\ jLast.err # "NoHashFound"
                /\ jLast.net.fs = "ok" /\ jLast.before.doc # Torn(jLast.before.doc) =>
                      /\ jLast.written
                      /\ jLast.doc = AppliedFrom(jLast.jlap.patches, k, jLast.before.doc)

\* a call that validated a response whose first patch is older than the
\* cache, and that applied the later ones
C33_Witness ==
    /\ jLast.validated
    /\ jLast.result = "Ok"
    /\ PatchesFromCurrent # {}
    /\ 1 \notin PatchesFromCurrent
    /\ jLast.doc # jLast.before.doc

(***************************************************************************)
(* Claims about get_or_create_subdir                                       *)
(***************************************************************************)
\* the tasks that hold the pending slot and run create_subdir
Loaders == {t \in Tasks : gwPc[t] \in {"loading", "created"}}

\* the tasks that found the entry pending and upgraded its sender
Waiters == {t \in Tasks : gwPc[t] \in {"upgraded", "unlocked", "waiting"}}

\* C6: at every moment at most one task performs the load for the key; while
\* it does, the entry is Pending on its sender and every other task that
\* has passed the entry waits on that sender.
C6_SingleLoader ==
    /\ Cardinality(Loaders) <= 1
    /\ \A t \in Loaders :
          /\ gwEntry = Pending(gwHeld[t])
          /\ \A u \in Waiters : gwHeld[u] = gwHeld[t]

\* a second loader (the first one failed) at work while another task waits
\* on its sender
C6_Witness ==
    \E t \in Loaders : /\ gwHeld[t] = 2
                       /\ gwOutcome[1] = "failed"
                       /\ \E u \in Waiters : gwHeld[u] = 2

\* C2: if the loader of a pending entry fails or is dropped without
\* publishing, every task that found the entry pending and subscribed to it
\* eventually returns the coalesced-failure error.
C2_SubscribersGetFailure ==
    \A t \in Tasks :
        (gwPc[t] = "waiting" /\ gwOutcome[gwHeld[t]] = "failed")
            ~> (gwPc[t] = "done" /\ gwRet[t] = CoalescedFailure)

\* C7: if the loader of a pending entry completes successfully, every task
\* that found the entry pending eventually returns the subdir the loader
\* published.
C7_WaitersGetSubdir ==
    \A t \in Tasks :
        (t \in Waiters /\ gwOutcome[gwHeld[t]] = "published")
            ~> (gwPc[t] = "done" /\ gwRet[t] = ReturnOk(gwEntry.val))

(***************************************************************************)
(* Claims about patch_repo_data                                            *)
(***************************************************************************)
\* the running MAC over the patch lines of the parsed response equals its
\* checksum line
MacMatches(jlap) == RunningMac(jlap.initialization_vector, jlap.patches) = jlap.checksum

\* every patch of the response starts from the hash the one before leads to
ChainUnbroken(patches) == \A i \in 1..(Len(patches) - 1) : patches[i].b = patches[i + 1].a

\* C3: JLAP chain integrity. For every response patch_repo_data returns Ok
\* for, the running MAC from the iv over all patch lines equals the last
\* line, and consecutive patches satisfy p[i].to = p[i+1].from.
C3_ChainIntegrity ==
    jLast.result = "Ok" => MacMatches(jLast.jlap) /\ ChainUnbroken(jLast.jlap.patches)

\* C8: when the ranged request for a stored position pos > 0 is answered
\* 416, exactly one further request is sent, with `Range: bytes=0-`, and if
\* it succeeds the position used for the new JLAP state is 0.
C8_RetryFromZero ==
    (jLast.result # "none" /\ jLast.before.jlap.pos > 0
        /\ jLast.first_status = RANGE_NOT_SATISFIABLE)
    => /\ jLast.requests = <<jLast.before.jlap.pos, 0>>
       /\ jLast.result = "Ok" => jLast.position = 0

\* C9: the cached repodata is written only after the running MAC over the
\* patch lines was found equal to the checksum line; on a mismatch
\* patch_repo_data fails with ChecksumMismatch and the file is unchanged.
C9_ChecksumBeforeApply ==
    /\ jLast.written => MacMatches(jLast.jlap)
    /\ (jLast.jlap.ok /\ ~MacMatches(jLast.jlap))
          => (jLast.result = "Err" /\ jLast.err = "ChecksumMismatch"
              /\ jLast.doc = jLast.before.doc)

\* the response is what the server sent, starting at a line of its log
Unaltered(call) ==
    /\ call.status = 206
    /\ call.net.how = "none"
    /\ \A i \in DOMAIN call.lines : call.lines[i].kind # "junk"

\* footer.latest of a response, 0 if the line before the last is no footer
ResponseLatest(lines) ==
    IF Len(lines) >= 2 /\ lines[Len(lines) - 1].kind = "footer"
    THEN lines[Len(lines) - 1].a ELSE 0

\* C10: if footer.latest of the response equals the current hash of the
\* cached repodata, patch_repo_data succeeds, applies no patch and leaves
\* the file as it is, also for a ranged response that carries only the
\* footer and the checksum because the log has not grown.
C10_UpToDateIsOk ==
    (Unaltered(jLast) /\ ResponseLatest(jLast.lines) = jLast.before.blake2_hash)
    => (jLast.result = "Ok" /\ ~jLast.written /\ jLast.doc = jLast.before.doc)

\* the patch lines of a response
ResponsePatches(lines) == SelectSeq(lines, LAMBDA l : l.kind = "patch")

\* the running MAC over the patch lines of the response of a call, started
\* from the iv line of the response or, for a ranged response, from the iv
\* stored by the previous call
ResponseMac(call) ==
    RunningMac(IF call.lines[1].kind = "hex" THEN call.lines[1].a ELSE call.before.jlap.iv,
               ResponsePatches(call.lines))

\* C20: after a successful patch_repo_data that applied at least one patch,
\* the hash of the bytes written to the cached repodata file equals
\* footer.latest of the response, the returned iv is the final running MAC,
\* which equals the checksum line of the response, and the returned footer
\* is the footer of the response.
C20_StateAfterPatch ==
    (jLast.result = "Ok" /\ jLast.written) =>
        /\ Hash(jLast.doc) = ResponseLatest(jLast.lines)
        /\ jLast.state.some
        /\ jLast.state.iv = ResponseMac(jLast)
        /\ Last(jLast.lines).kind = "hex"
        /\ jLast.state.iv = Last(jLast.lines).a
        /\ jLast.state.footer = ResponseLatest(jLast.lines)

\* a call that resumed from a stored position, applied the patch line the
\* server had appended since, and returned Ok
C20_Witness ==
    /\ jLast.result = "Ok"
    /\ jLast.written
    /\ jLast.before.jlap.some
    /\ jLast.position > 0
    /\ jLast.lines[1].kind = "patch"
    /\ jLast.doc # jLast.before.doc

\* C22: the cached repodata file is replaced atomically: whenever
\* patch_repo_data returns an error, whether a JSON patch failure, a write
\* failure or HashesNotMatching, the cached file still holds the content it
\* had before the call.
C22_AtomicReplace ==
    jLast.result = "Err" => jLast.doc = jLast.before.doc

\* a step that is a call of patch_repo_data that fails with NoHashFound
NoHashFoundCall == jSessions' = jSessions + 1 /\ jLast'.err = "NoHashFound"

\* C23: when patching fails with NoHashFound, the persisted JLAP position
\* is reset to 0, so that the next session reads the log from its
\* beginning.
C23_ResetOnNoHashFound ==
    [][NoHashFoundCall =>
        get_position_and_initialization_vector(jState').position = JLAP_START_POSITION]_vars

\* the lines of a response that precede its footer line
BeforeFooter(lines) ==
    LET i == CHOOSE i \in DOMAIN lines :
                 lines[i].kind = "footer" /\ \A j \in (i + 1)..Len(lines) : lines[j].kind # "footer"
    IN SubSeq(lines, 1, i - 1)

\* the byte offset at which the footer line starts in a log
FooterStart(log) == SumLen(SubSeq(log, 1, Len(log) - 2))

\* a step that is a successful call of patch_repo_data
SuccessfulCall == jSessions' = jSessions + 1 /\ jLast'.result = "Ok"

\* C21: after every successful patch_repo_data the returned position is the
\* position of the request that was answered (0 after a 416 retry) plus the
\* byte length, newline included, of every response line that precedes the
\* footer line, which is the byte offset at which the footer line starts in
\* the log that was read.
C21_PositionAdvance ==
    [][SuccessfulCall =>
        /\ jLast'.state.pos = Last(jLast'.requests) + SumLen(BeforeFooter(jLast'.lines))
        /\ jLast'.state.pos = FooterStart(ServerLog(jSrvIv, jSrvBase, jSrvN))]_vars

\* the patch lines of a log that end before byte `pos`, for a position at
\* which a line of the log starts
PatchLinesBefore(log, pos) ==
    LET k == CHOOSE k \in 0..Len(log) : SumLen(SubSeq(log, 1, k)) = pos
    IN ResponsePatches(SubSeq(log, 1, k))

\* C35: the state returned by patch_repo_data is resumable. Against a log
\* that only grew by appended patch lines, after every successful call, also
\* one that returned because the cache was up to date, the returned iv is
\* the running MAC, from the iv line of the log, of all patch lines that
\* precede the returned position.
C35_ResumableState ==
    [][(SuccessfulCall /\ jSrvIv = 0 /\ Unaltered(jLast')) =>
          jLast'.state.iv =
              RunningMac(jSrvIv, PatchLinesBefore(ServerLog(jSrvIv, jSrvBase, jSrvN),
                                                  jLast'.state.pos))]_vars

\* a call that resumed from a stored position greater than 0, read the patch
\* line appended since and returned a greater position
C21_Witness ==
    /\ jLast.result = "Ok"
    /\ jLast.before.jlap.pos > 0
    /\ jLast.requests = <<jLast.before.jlap.pos>>
    /\ jLast.lines[1].kind = "patch"
    /\ jLast.state.pos > jLast.before.jlap.pos

(***************************************************************************)
(* GATEWAY: load_records_recursive                                         *)
(*                                                                         *)
(* One call on a gateway that was just constructed.  A string is a         *)
(* sequence of characters; a package name is a string without a space.     *)
(* The futures of pending_subdirs and pending_records are polled by the    *)
(* one task that runs the call, so the code between two awaits of a future *)
(* is one step, and a future that completes is handled by the select of    *)
(* the main loop in the same poll.                                         *)
(***************************************************************************)
MaxList == 2

MaxSubdirs == 2

Channels == {"c1", "c2"}

Platforms == {"noarch", "linux-64"}

\* the package names a caller asks for; the records served depend on a
\* third package, "c"
Names == {<<"a">>, <<"b">>}

Keys == Channels \X Platforms

\* the lists of at most n elements of S
ListsUpTo(S, n) == UNION {[1..k -> S] : k \in 0..n}

\* a record a subdir serves
Record(name, build, channel, subdir, depends) ==
    [name |-> name, build |-> build, channel |-> channel, subdir |-> subdir,
     depends |-> depends]

\* the records the subdir (channel, platform) serves for `name`
SubdirRecords(channel, platform, name) ==
    CASE <<channel, platform, name>> = <<"c1", "noarch", <<"a">>>> ->
           <<Record(name, 0, channel, platform, << <<"b", " ", ">", "1">> >>)>>
      [] <<channel, platform, name>> = <<"c1", "linux-64", <<"b">>>> ->
           <<Record(name, 0, channel, platform, << <<"c">> >>),
             Record(name, 1, channel, platform, <<>>)>>
      [] <<channel, platform, name>> = <<"c2", "noarch", <<"c">>>> ->
           <<Record(name, 0, channel, platform, << <<"a", " ", "1">>, <<"c">> >>)>>
      [] <<channel, platform, name>> = <<"c2", "noarch", <<"b">>>> ->
           <<Record(name, 0, channel, platform, << <<"a">> >>)>>
      [] <<channel, platform, name>> = <<"c2", "linux-64", <<"a">>>> ->
           <<Record(name, 0, channel, platform, << <<"c", " ", "2", " ", "h">> >>)>>
      [] OTHER -> <<>>

\* a variant that takes the whole dependency string as the name
NamePartWhole(dependency) == dependency

\* dependency.split_once(' ').unwrap_or((dependency, "")).0
NamePart(dependency) ==
    IF \E i \in DOMAIN dependency : dependency[i] = " "
    THEN SubSeq(dependency, 1,
                (CHOOSE i \in DOMAIN dependency :
                    /\ dependency[i] = " "
                    /\ \A j \in 1..(i - 1) : dependency[j] # " ") - 1)
    ELSE dependency

\* the dependency names of a list of records
DependencyNames(records) ==
    UNION {{NamePart(records[i].depends[j]) : j \in DOMAIN records[i].depends} :
              i \in DOMAIN records}

\* channels_and_platforms: element s of subdirs is (channel_idx, channel, platform)
SubdirCount == Len(ldChannels) * Len(ldPlatforms)

SubdirIdx == 1..SubdirCount

ChannelIdxOf(s) == ((s - 1) \div Len(ldPlatforms)) + 1

PlatformOf(s) == ldPlatforms[((s - 1) % Len(ldPlatforms)) + 1]

ChannelOf(s) == ldChannels[ChannelIdxOf(s)]

KeyOf(s) == <<ChannelOf(s), PlatformOf(s)>>

LdVacant == [state |-> "vacant", alive |-> FALSE, val |-> "none"]

LdPending == [state |-> "pending", alive |-> TRUE, val |-> "none"]

LdFetched(v) == [state |-> "fetched", alive |-> FALSE, val |-> v]

NewFuture == [pc |-> "new", msg |-> "none"]

\* RepoData::default()
EmptyRepoData == [len |-> 0, shards |-> <<>>]

\* the arguments of the call; the gateway was just built by GatewayBuilder::finish
LoadInit ==
    /\ ldChannels \in ListsUpTo(Channels, MaxList)
    /\ ldPlatforms \in ListsUpTo(Platforms, MaxList)
    /\ Len(ldChannels) * Len(ldPlatforms) <= MaxSubdirs
    /\ ldSeeds \in SUBSET Names
    /\ ldPc = "entry"
    /\ ldEntry = [k \in Keys |-> LdVacant]
    /\ ldClient = [k \in Keys |-> "none"]
    /\ ldSub = <<>>
    /\ ldBarrier = <<>>
    /\ ldSeen = {}
    /\ ldPending = {}
    /\ ldRequests = {}
    /\ ldResult = <<>>
    /\ ldReturn = "none"

\* lines 143-202: subdirs with their barriers and futures, seen, result, and
\* the first pass of the loop over pending_package_names
Begin ==
    /\ ldPc = "entry"
    /\ ldPc' = "loop"
    /\ ldSub' = [s \in SubdirIdx |-> NewFuture]
    /\ ldBarrier' = [s \in SubdirIdx |-> "unset"]
    /\ ldSeen' = ldSeeds
    /\ ldPending' = SubdirIdx \X ldSeeds
    /\ ldResult' = [i \in 1..Len(ldChannels) |-> EmptyRepoData]
    /\ UNCHANGED <<ldChannels, ldPlatforms, ldSeeds, ldEntry, ldClient, ldRequests,
                   ldReturn>>
    /\ UNCHANGED nonLoadVars

\* the first poll of a future of pending_subdirs: get_or_create_subdir up to
\* its first await, or to its return for a fetched entry
SubdirPoll(s) ==
    /\ ldPc = "loop"
    /\ ldSub[s].pc = "new"
    /\ LET e == ldEntry[KeyOf(s)] IN
       IF e.state = "fetched"
       THEN /\ ldSub' = [ldSub EXCEPT ![s].pc = "done"]
            /\ ldBarrier' = [ldBarrier EXCEPT ![s] = e.val]
            /\ UNCHANGED ldEntry
       ELSE IF e.state = "pending" /\ e.alive
       THEN /\ ldSub' = [ldSub EXCEPT ![s].pc = "waiting"]
            /\ UNCHANGED <<ldEntry, ldBarrier>>
       ELSE /\ ldEntry' = [ldEntry EXCEPT ![KeyOf(s)] = LdPending]
            /\ ldSub' = [ldSub EXCEPT ![s].pc = "creating"]
            /\ UNCHANGED ldBarrier
    /\ UNCHANGED <<ldChannels, ldPlatforms, ldSeeds, ldPc, ldClient, ldSeen,
                   ldPending, ldRequests, ldResult, ldReturn>>
    /\ UNCHANGED nonLoadVars

ClientAnswers == {"ok", "not_found", "error"}

\* `return Err(..)` out of the loop: the futures, the barriers, seen and
\* result are dropped with the frame of the call
ReturnErr ==
    /\ ldPc' = "returned"
    /\ ldReturn' = "err"
    /\ ldSub' = <<>>
    /\ ldBarrier' = <<>>
    /\ ldSeen' = {}
    /\ ldPending' = {}
    /\ ldRequests' = {}
    /\ ldResult' = <<>>

\* a variant of create_subdir that treats every not-found subdir as empty
create_subdir_any_platform(platform, answer) ==
    IF answer = "ok" THEN "Found"
    ELSE IF answer = "not_found" THEN "NotFound"
    ELSE "Err"

\* create_subdir, given what the subdir client constructor answered
create_subdir(platform, answer) ==
    IF answer = "ok" THEN "Found"
    ELSE IF answer = "not_found" /\ platform # "noarch" THEN "NotFound"
    ELSE "Err"

\* create_subdir comes back in the loader: on Ok the entry is stored, the
\* subdir is sent to the subscribers and the barrier is set; on Err the
\* future fails and the select of the main loop returns the error
SubdirCreated(s, answer) ==
    /\ ldPc = "loop"
    /\ ldSub[s].pc = "creating"
    /\ ldClient' = [ldClient EXCEPT ![KeyOf(s)] = answer]
    /\ LET subdir == create_subdir(PlatformOf(s), answer) IN
       IF subdir = "Err"
       THEN /\ ldEntry' = [ldEntry EXCEPT ![KeyOf(s)].alive = FALSE]
            /\ ReturnErr
       ELSE /\ ldEntry' = [ldEntry EXCEPT ![KeyOf(s)] = LdFetched(subdir)]
            /\ ldSub' = [t \in SubdirIdx |->
                           IF t = s THEN [ldSub[t] EXCEPT !.pc = "done"]
                           ELSE IF ldSub[t].pc = "waiting" /\ KeyOf(t) = KeyOf(s)
                                THEN [ldSub[t] EXCEPT !.msg = subdir]
                                ELSE ldSub[t]]
            /\ ldBarrier' = [ldBarrier EXCEPT ![s] = subdir]
            /\ UNCHANGED <<ldPc, ldReturn, ldSeen, ldPending, ldRequests, ldResult>>
    /\ UNCHANGED <<ldChannels, ldPlatforms, ldSeeds>>
    /\ UNCHANGED nonLoadVars

\* recv() of a subscriber comes back with the subdir that was sent
SubdirReceived(s) ==
    /\ ldPc = "loop"
    /\ ldSub[s].pc = "waiting"
    /\ ldSub[s].msg # "none"
    /\ ldSub' = [ldSub EXCEPT ![s].pc = "done"]
    /\ ldBarrier' = [ldBarrier EXCEPT ![s] = ldSub[s].msg]
    /\ UNCHANGED <<ldChannels, ldPlatforms, ldSeeds, ldPc, ldEntry, ldClient, ldSeen,
                   ldPending, ldRequests, ldResult, ldReturn>>
    /\ UNCHANGED nonLoadVars

\* the records one future of pending_records yields
RecordsYielded(s, name) ==
    IF ldBarrier[s] = "Found"
    THEN SubdirRecords(ChannelOf(s), PlatformOf(s), name)
    ELSE <<>>

\* a variant that adds every shard to the first element of the result
AddToFirstResult(result, channel_idx, records) ==
    IF Len(records) > 0
    THEN [result EXCEPT ![1] =
              [len |-> @.len + Len(records), shards |-> Append(@.shards, records)]]
    ELSE result

\* lines 230-235: add the records to the result
AddToResult(result, channel_idx, records) ==
    IF Len(records) > 0
    THEN [result EXCEPT ![channel_idx] =
              [len |-> @.len + Len(records), shards |-> Append(@.shards, records)]]
    ELSE result

\* a future of pending_records completes with records and the select of the
\* main loop handles them; the next pass of the loop creates the futures for
\* the names that were added to pending_package_names
RecordsFetched(s, name) ==
    /\ ldPc = "loop"
    /\ <<s, name>> \in ldPending
    /\ ldBarrier[s] # "unset"
    /\ LET records == RecordsYielded(s, name)
           new     == DependencyNames(records) \ ldSeen
       IN /\ ldSeen' = ldSeen \cup new
          /\ ldPending' = (ldPending \ {<<s, name>>}) \cup (SubdirIdx \X new)
          /\ ldResult' = AddToResult(ldResult, ChannelIdxOf(s), records)
    /\ ldRequests' = IF ldBarrier[s] = "Found"
                     THEN ldRequests \cup {<<s, name>>}
                     ELSE ldRequests
    /\ UNCHANGED <<ldChannels, ldPlatforms, ldSeeds, ldPc, ldEntry, ldClient, ldSub,
                   ldBarrier, ldReturn>>
    /\ UNCHANGED nonLoadVars

\* get_or_fetch_package_records fails and `records?` returns the error
RecordsFailed(s, name) ==
    /\ ldPc = "loop"
    /\ <<s, name>> \in ldPending
    /\ ldBarrier[s] = "Found"
    /\ ReturnErr
    /\ UNCHANGED <<ldChannels, ldPlatforms, ldSeeds, ldEntry, ldClient>>
    /\ UNCHANGED nonLoadVars

\* a variant that breaks as soon as no record future is left
CompleteWithoutSubdirs ==
    /\ ldPc = "loop"
    /\ ldPending = {}
    /\ ldPc' = "returned"
    /\ ldReturn' = "ok"
    /\ UNCHANGED <<ldChannels, ldPlatforms, ldSeeds, ldEntry, ldClient, ldSub,
                   ldBarrier, ldSeen, ldPending, ldRequests, ldResult>>
    /\ UNCHANGED nonLoadVars

\* the `complete` arm of the select: both sets of futures are exhausted
Complete ==
    /\ ldPc = "loop"
    /\ \A s \in SubdirIdx : ldSub[s].pc = "done"
    /\ ldPending = {}
    /\ ldPc' = "returned"
    /\ ldReturn' = "ok"
    /\ UNCHANGED <<ldChannels, ldPlatforms, ldSeeds, ldEntry, ldClient, ldSub,
                   ldBarrier, ldSeen, ldPending, ldRequests, ldResult>>
    /\ UNCHANGED nonLoadVars

LoadNext ==
    \/ Begin
    \/ \E s \in SubdirIdx : SubdirPoll(s)
    \/ \E s \in SubdirIdx : \E answer \in ClientAnswers : SubdirCreated(s, answer)
    \/ \E s \in SubdirIdx : SubdirReceived(s)
    \/ \E s \in SubdirIdx : \E name \in ldSeen : RecordsFetched(s, name)
    \/ \E s \in SubdirIdx : \E name \in ldSeen : RecordsFailed(s, name)
    \/ Complete

\* the loads of the key that succeeded: create_subdir returned Ok
SuccessfulLoads ==
    Cardinality({t \in Tasks : gwPc[t] \in {"created", "stored"}})
        + Cardinality({c \in Chans : gwOutcome[c] = "published"})

\* once the entry is Fetched, no task is in or after create_subdir without
\* having published, and a task that found the entry Fetched has returned
\* the subdir of the entry
FetchedServesCallers ==
    /\ SuccessfulLoads <= 1
    /\ gwEntry.state = "fetched" =>
           /\ gwEntry.val \in Subdirs
           /\ \A t \in Tasks : gwPc[t] \notin {"loading", "created"}
    /\ \A t \in Tasks :
           gwVia[t] = "fetched" =>
               /\ gwEntry.state = "fetched"
               /\ gwPc[t] = "done"
               /\ gwRet[t] = ReturnOk(gwEntry.val)

\* a step from a state with a Fetched entry leaves the entry as it is and
\* starts no create_subdir
FetchedStays ==
    gwEntry.state = "fetched" =>
        /\ gwEntry' = gwEntry
        /\ \A t \in Tasks : gwPc'[t] = "loading" => gwPc[t] = "loading"

\* C18: for one key the subdir is loaded successfully at most once: once the
\* entry is Fetched it is never replaced by another value nor reverted to
\* Pending, and every get_or_create_subdir that starts afterwards returns
\* that subdir without calling create_subdir.
C18_FetchedIsFinal == [](FetchedServesCallers) /\ [][FetchedStays]_vars

\* a task called get_or_create_subdir after the loader had stored the
\* subdir and got the stored subdir back
C18_Witness ==
    /\ gwEntry.state = "fetched"
    /\ \E t, u \in Tasks :
          /\ gwVia[t] = "fetched"
          /\ gwRet[t] = ReturnOk(gwEntry.val)
          /\ gwVia[u] \in {"vacant", "dead"}
          /\ gwRet[u] = gwRet[t]

(***************************************************************************)
(* Claims about load_records_recursive                                     *)
(***************************************************************************)
\* the characters of a dependency string before its first space
BeforeFirstSpace(dependency) ==
    LET n == CHOOSE k \in 0..Len(dependency) :
                 /\ \A j \in 1..k : dependency[j] # " "
                 /\ k < Len(dependency) => dependency[k + 1] = " "
    IN SubSeq(dependency, 1, n)

\* the names the records returned for a name of S by any subdir depend on
DependedOn(S) ==
    UNION {UNION {{BeforeFirstSpace(RecordsYielded(s, n)[i].depends[j]) :
                       j \in DOMAIN RecordsYielded(s, n)[i].depends} :
                     i \in DOMAIN RecordsYielded(s, n)} :
              <<s, n>> \in SubdirIdx \X S}

\* the least set that contains S and is closed under DependedOn
RECURSIVE DependencyClosure(_)
DependencyClosure(S) ==
    IF DependedOn(S) \subseteq S THEN S ELSE DependencyClosure(S \cup DependedOn(S))

\* the records of all shards of the result
ResultRecords ==
    UNION {UNION {Range(ldResult[i].shards[k]) : k \in DOMAIN ldResult[i].shards} :
              i \in DOMAIN ldResult}

\* C15: when load_records_recursive returns Ok, the names it requested are
\* exactly the least set that contains the seed names and is closed under
\* the name part (the characters before the first space) of the dependency
\* strings of the records returned for a requested name by any subdir, and
\* the result contains the records of every found subdir for every
\* requested name.
C15_DependencyClosure ==
    ldReturn = "ok" =>
        /\ ldSeen = DependencyClosure(ldSeeds)
        /\ \A s \in SubdirIdx : \A n \in ldSeen :
               ldBarrier[s] = "Found" =>
                   Range(SubdirRecords(ChannelOf(s), PlatformOf(s), n)) \subseteq ResultRecords

\* a call that returned Ok after following a dependency with a version
\* constraint and a dependency of a dependency, beyond the seed names
C15_Witness ==
    /\ ldReturn = "ok"
    /\ ldSeeds = {<<"a">>}
    /\ ldSeen = {<<"a">>, <<"b">>, <<"c">>}
    /\ \E r \in ResultRecords : r.name = <<"b">> /\ r.build = 1

\* the number of records in a list of shards
RECURSIVE TotalRecords(_)
TotalRecords(shards) ==
    IF shards = <<>> THEN 0 ELSE Len(Head(shards)) + TotalRecords(Tail(shards))

\* C16: load_records_recursive returns one RepoData per input channel, at
\* the index of the channel in the input; the records of result[i] all come
\* from subdirs of channel i, and result[i].len is the total number of
\* records in its shards.
C16_ResultPerChannel ==
    ldReturn = "ok" =>
        /\ Len(ldResult) = Len(ldChannels)
        /\ \A i \in DOMAIN ldResult :
               /\ \A k \in DOMAIN ldResult[i].shards :
                      \A r \in Range(ldResult[i].shards[k]) : r.channel = ldChannels[i]
               /\ ldResult[i].len = TotalRecords(ldResult[i].shards)

\* a call with two different channels that returned records for both, the
\* second channel of the input being the one that serves "b"
C16_Witness ==
    /\ ldReturn = "ok"
    /\ ldChannels = <<"c1", "c2">>
    /\ ldResult[1].len > 0
    /\ ldResult[2].len > 0
    /\ \E r \in Range(ldResult[2].shards[1]) : r.channel = "c2"

\* the futures that requested the records of (channel, platform, name)
RequestsFor(channel, platform, name) ==
    {q \in ldRequests : KeyOf(q[1]) = <<channel, platform>> /\ q[2] = name}

\* the shards of the result, as <<index into result, index into shards>>,
\* that hold the records of (channel, platform, name)
ShardsFor(channel, platform, name) ==
    {x \in UNION {{<<i, k>> : k \in DOMAIN ldResult[i].shards} : i \in DOMAIN ldResult} :
        \E r \in Range(ldResult[x[1]].shards[x[2]]) :
            r.channel = channel /\ r.subdir = platform /\ r.name = name}

\* C17: within one load_records_recursive call the records of a (channel,
\* platform, name) triple are requested at most once and added to the result
\* at most once, whatever the lists of channels, platforms and names are,
\* lists that name a channel or a platform more than once included.
C17_TripleAtMostOnce ==
    \A key \in Keys : \A n \in ldSeen :
        /\ Cardinality(RequestsFor(key[1], key[2], n)) <= 1
        /\ Cardinality(ShardsFor(key[1], key[2], n)) <= 1

C19_EmptyWitness ==
    /\ ldReturn = "ok"
    /\ ldClient[<<"c2", "linux-64">>] = "not_found"
    /\ ldResult[1].len > 0

\* every name that was discovered was requested from every subdir that exists
AllRequested ==
    \A s \in SubdirIdx : \A name \in ldSeen :
        ldBarrier[s] = "Found" => <<s, name>> \in ldRequests

\* C36: load_records_recursive terminates. If every subdir load and every
\* record fetch eventually completes, the call eventually returns, and it
\* returns Ok only when no subdir load and no record fetch is in flight and
\* no discovered name is left unrequested.
C36_Terminates ==
    /\ <>(ldPc = "returned")
    /\ [](ldReturn = "ok" =>
            /\ \A s \in SubdirIdx : ldSub[s].pc = "done" /\ ldBarrier[s] # "unset"
            /\ ldPending = {}
            /\ AllRequested)

\* the call returned Ok after it fetched the records of a name it had
\* discovered as a dependency
C36_Witness ==
    /\ ldReturn = "ok"
    /\ ldSeen \ ldSeeds # {}
    /\ ldRequests # {}

(***************************************************************************)
(* SOLVER: CondaDependencyProvider::from_solver_task                       *)
(*                                                                         *)
(* A record is [name, channel, file_name, timestamp]; a file name is its   *)
(* stem and its extension, an Option is [some, value].  The pool is the    *)
(* sequence of the solvables interned so far; a solvable id is its index.  *)
(* The task has no virtual packages.  The solver itself is not part of the *)
(* sources: it selects, for every name a top-level spec asks for, one      *)
(* candidate that is not excluded, and only the locked one if one is set.  *)
(***************************************************************************)
\* the number of records of one repodata list
MaxRecords == 3
\* the number of records of a repodata list when two channels are given
MaxPerChannel == 1

SolveChannels == <<"c1", "c2">>

\* the file stems of the records, with the package name each belongs to
Stems == {"foo-1", "bar-1"}

NameOfStem(stem) == IF stem = "foo-1" THEN "foo" ELSE "bar"

PackageNames == {NameOfStem(stem) : stem \in Stems}

None == [some |-> FALSE, value |-> 0]

Some(v) == [some |-> TRUE, value |-> v]

\* upload times: absent, at the cutoff, after the cutoff
Timestamps == {None, Some(1), Some(2)}

\* the cutoff dates of a task
Cutoffs == {None, Some(1)}

RepoDataRecord(stem, ext, channel, timestamp) ==
    [name |-> NameOfStem(stem), channel |-> channel,
     file_name |-> [stem |-> stem, ext |-> ext], timestamp |-> timestamp]

\* ArchiveType: TarBz2 < Conda
ArchiveRank(archive_type) == IF archive_type = "conda" THEN 1 ELSE 0

\* ArchiveType::split_str(..).unwrap_or((file_name, ArchiveType::TarBz2))
split_str(file_name) ==
    IF file_name.ext \in {"conda", "tar.bz2"}
    THEN [file_name |-> file_name.stem, archive_type |-> file_name.ext]
    ELSE [file_name |-> file_name.stem \o file_name.ext, archive_type |-> "tar.bz2"]

\* `excluded` of lines 262-264 and the guard of lines 321-323
NewerThan(exclude_newer, record) ==
    exclude_newer.some /\ record.timestamp.some
        /\ record.timestamp.value > exclude_newer.value

NoType == [archive_type |-> "", idx |-> 0, excluded |-> FALSE]

\* a variant of the selection that never replaces the record stored first
KeepFirst(prev, archive_type, excluded) ==
    IF prev.excluded = excluded /\ archive_type = prev.archive_type
    THEN "duplicate" ELSE "keep"

\* what lines 275-307 do with a record whose stem was seen before
DedupChoice(prev, archive_type, excluded) ==
    IF prev.excluded /\ ~excluded THEN "replace"
    ELSE IF excluded /\ ~prev.excluded THEN "keep"
    ELSE IF ArchiveRank(archive_type) > ArchiveRank(prev.archive_type) THEN "replace"
    ELSE IF ArchiveRank(archive_type) < ArchiveRank(prev.archive_type) THEN "keep"
    ELSE "duplicate"

\* the loop of lines 260-310 over one repodata list
RECURSIVE DedupLoop(_, _, _)
DedupLoop(acc, records, exclude_newer) ==
    IF records = <<>> \/ acc.error # "none" THEN acc
    ELSE LET record   == Head(records)
             excluded == NewerThan(exclude_newer, record)
             split    == split_str(record.file_name)
             key      == split.file_name
             seen     == key \in DOMAIN acc.package_to_type
             prev     == IF seen THEN acc.package_to_type[key] ELSE NoType
             choice   == IF seen THEN DedupChoice(prev, split.archive_type, excluded)
                         ELSE "push"
             taken    == [archive_type |-> split.archive_type,
                          idx |-> IF seen THEN prev.idx ELSE Len(acc.ordered_repodata) + 1,
                          excluded |-> excluded]
             next     ==
                CASE choice = "push" ->
                        [acc EXCEPT !.ordered_repodata = Append(@, record),
                                    !.package_to_type =
                                        [k \in DOMAIN @ \cup {key} |->
                                            IF k = key THEN taken ELSE @[k]]]
                  [] choice = "replace" ->
                        [acc EXCEPT !.ordered_repodata[prev.idx] = record,
                                    !.package_to_type[key] = taken]
                  [] choice = "keep" -> acc
                  [] OTHER -> [acc EXCEPT !.error = "DuplicateRecords"]
         IN DedupLoop(next, Tail(records), exclude_newer)

dedup(records, exclude_newer) ==
    DedupLoop([ordered_repodata |-> <<>>, package_to_type |-> <<>>, error |-> "none"],
              records, exclude_newer)

\* Candidates::default()
NoCandidates ==
    [candidates |-> <<>>, excluded |-> <<>>, favored |-> 0, locked |-> 0,
     hint_dependencies_available |-> <<>>]

EmptyProvider ==
    [pool |-> <<>>, records |-> [n \in PackageNames |-> NoCandidates],
     package_name_found_in_channel |-> [n \in PackageNames |-> ""],
     error |-> "none"]

\* the first channel-specific spec with the name of the record
FindChannelSpec(channel_specific_specs, name) ==
    LET hits == SelectSeq(channel_specific_specs, LAMBDA spec : spec.name = name)
    IN IF hits = <<>> THEN None ELSE Some(Head(hits))

\* a variant of the loop body without the test of the channel-specific spec
CandidateStepAnyChannel(prov, record, task) ==
    LET name        == record.name
        solvable_id == Len(prov.pool) + 1
        pushed      == [prov EXCEPT !.pool = Append(@, record),
                                    !.records[name].candidates = Append(@, solvable_id)]
        newer       == IF NewerThan(task.exclude_newer, record)
                       THEN [pushed EXCEPT !.records[name].excluded =
                                Append(@, [id |-> solvable_id, reason |-> "cutoff"])]
                       ELSE pushed
        first       == newer.package_name_found_in_channel[name]
    IN IF first # "" /\ task.channel_priority = "Strict"
       THEN IF first # record.channel
            THEN [newer EXCEPT !.records[name].excluded =
                    Append(@, [id |-> solvable_id, reason |-> "priority"])]
            ELSE [newer EXCEPT !.records[name].hint_dependencies_available =
                    Append(@, solvable_id)]
       ELSE [newer EXCEPT !.package_name_found_in_channel[name] = record.channel,
                          !.records[name].hint_dependencies_available =
                              Append(@, solvable_id)]

\* the body of the loop of lines 312-396 for one record
CandidateStep(prov, record, task) ==
    LET name        == record.name
        solvable_id == Len(prov.pool) + 1
        pushed      == [prov EXCEPT !.pool = Append(@, record),
                                    !.records[name].candidates = Append(@, solvable_id)]
        newer       == IF NewerThan(task.exclude_newer, record)
                       THEN [pushed EXCEPT !.records[name].excluded =
                                Append(@, [id |-> solvable_id, reason |-> "cutoff"])]
                       ELSE pushed
        channel_specific_specs == SelectSeq(task.specs, LAMBDA spec : spec.channel # "")
        spec        == FindChannelSpec(channel_specific_specs, name)
        first       == newer.package_name_found_in_channel[name]
    IN IF spec.some /\ record.channel # spec.value.channel
       THEN [newer EXCEPT !.records[name].excluded =
                Append(@, [id |-> solvable_id, reason |-> "channel"])]
       ELSE IF first # "" /\ task.channel_priority = "Strict"
       THEN IF first # record.channel
            THEN [newer EXCEPT !.records[name].excluded =
                    Append(@, [id |-> solvable_id, reason |-> "priority"])]
            ELSE [newer EXCEPT !.records[name].hint_dependencies_available =
                    Append(@, solvable_id)]
       ELSE [newer EXCEPT !.package_name_found_in_channel[name] = record.channel,
                          !.records[name].hint_dependencies_available =
                              Append(@, solvable_id)]

RECURSIVE CandidateLoop(_, _, _)
CandidateLoop(prov, ordered_repodata, task) ==
    IF ordered_repodata = <<>> THEN prov
    ELSE CandidateLoop(CandidateStep(prov, Head(ordered_repodata), task),
                       Tail(ordered_repodata), task)

\* the loop of lines 244-397 over the repodata lists
RECURSIVE RepoDataLoop(_, _, _)
RepoDataLoop(prov, repodata, task) ==
    IF repodata = <<>> \/ prov.error # "none" THEN prov
    ELSE LET d == dedup(Head(repodata), task.exclude_newer)
         IN IF d.error # "none" THEN [prov EXCEPT !.error = d.error]
            ELSE RepoDataLoop(CandidateLoop(prov, d.ordered_repodata, task),
                              Tail(repodata), task)

\* lines 400-406
RECURSIVE AddFavored(_, _)
AddFavored(prov, favored_records) ==
    IF favored_records = <<>> THEN prov
    ELSE LET record == Head(favored_records)
             id     == Len(prov.pool) + 1
         IN AddFavored([prov EXCEPT !.pool = Append(@, record),
                                    !.records[record.name].candidates = Append(@, id),
                                    !.records[record.name].favored = id],
                       Tail(favored_records))

\* lines 408-414
RECURSIVE AddLocked(_, _)
AddLocked(prov, locked_records) ==
    IF locked_records = <<>> THEN prov
    ELSE LET record == Head(locked_records)
             id     == Len(prov.pool) + 1
         IN AddLocked([prov EXCEPT !.pool = Append(@, record),
                                   !.records[record.name].candidates = Append(@, id),
                                   !.records[record.name].locked = id],
                      Tail(locked_records))

from_solver_task(task) ==
    LET listed == RepoDataLoop(EmptyProvider, task.repodata, task)
    IN IF listed.error # "none" THEN listed
       ELSE AddLocked(AddFavored(listed, task.favored_records), task.locked_records)

\* the candidates of a name the solver may select
Eligible(prov, name) ==
    LET c == prov.records[name]
    IN {c.candidates[i] : i \in DOMAIN c.candidates}
          \ {c.excluded[i].id : i \in DOMAIN c.excluded}

\* the candidates of a name the solver selects from: only the locked one if
\* there is one
Selectable(prov, name) ==
    IF prov.records[name].locked # 0
    THEN Eligible(prov, name) \cap {prov.records[name].locked}
    ELSE Eligible(prov, name)

\* the names the top-level specs ask for
Requested(task) == {task.specs[i].name : i \in DOMAIN task.specs}

MatchSpecs == [name : PackageNames, channel : {"", "c1", "c2"}]

SolverTasks(repodata, favored, locked, specs) ==
    [repodata : repodata, favored_records : favored, locked_records : locked,
     specs : specs, channel_priority : {"Strict", "Disabled"}, exclude_newer : Cutoffs]

\* the records a channel may list
RecordsOf(channel, exts, timestamps) ==
    {RepoDataRecord(stem, ext, channel, ts) : stem \in Stems, ext \in exts, ts \in timestamps}

SolveStart(task) ==
    /\ svTask = task
    /\ svPc = "start"
    /\ svProvider = EmptyProvider
    /\ svError = "none"
    /\ svSolution = {}

\* a task with one repodata list
DedupInit ==
    \E task \in SolverTasks(
            {<<l>> : l \in ListsUpTo(RecordsOf("c1", {"conda", "tar.bz2"}, Timestamps),
                                     MaxRecords)},
            {<<>>}, {<<>>}, {<<>>}) :
        SolveStart(task)

\* a task with two channels and with favored and locked records
SolveInit ==
    \E task \in SolverTasks(
            {<<l1, l2>> : l1 \in ListsUpTo(RecordsOf("c1", {"conda"}, {Some(1), Some(2)}),
                                           MaxPerChannel),
                          l2 \in ListsUpTo(RecordsOf("c2", {"conda"}, {Some(1), Some(2)}),
                                           MaxPerChannel)},
            ListsUpTo(RecordsOf("c1", {"conda"}, {Some(1), Some(2)})
                        \cup RecordsOf("c2", {"conda"}, {Some(1), Some(2)}), 1),
            ListsUpTo(RecordsOf("c1", {"conda"}, {Some(1), Some(2)})
                        \cup RecordsOf("c2", {"conda"}, {Some(1), Some(2)}), 1),
            ListsUpTo(MatchSpecs, 1)) :
        SolveStart(task)

\* from_solver_task returns a provider
ProviderBuilt ==
    /\ svPc = "start"
    /\ \E provider \in {from_solver_task(svTask)} :
          /\ provider.error = "none"
          /\ svProvider' = provider
    /\ svPc' = "provided"
    /\ UNCHANGED <<svTask, svError, svSolution>>
    /\ UNCHANGED nonSolveVars

\* from_solver_task returns an error, which Solver::solve propagates
ProviderFailed ==
    /\ svPc = "start"
    /\ \E provider \in {from_solver_task(svTask)} :
          /\ provider.error # "none"
          /\ svError' = provider.error
    /\ svPc' = "failed"
    /\ UNCHANGED <<svTask, svProvider, svSolution>>
    /\ UNCHANGED nonSolveVars

\* the solver selects one selectable candidate for every requested name
Solved ==
    /\ svPc = "provided"
    /\ \E pick \in [Requested(svTask) -> 1..(Len(svProvider.pool) + 1)] :
          /\ \A n \in Requested(svTask) : pick[n] \in Selectable(svProvider, n)
          /\ svSolution' = {pick[n] : n \in Requested(svTask)}
    /\ svPc' = "solved"
    /\ UNCHANGED <<svTask, svProvider, svError>>
    /\ UNCHANGED nonSolveVars

\* no candidate can be selected for a requested name
Unsolvable ==
    /\ svPc = "provided"
    /\ \E n \in Requested(svTask) : Selectable(svProvider, n) = {}
    /\ svError' = "Unsolvable"
    /\ svPc' = "failed"
    /\ UNCHANGED <<svTask, svProvider, svSolution>>
    /\ UNCHANGED nonSolveVars

(***************************************************************************)
(* Claims about from_solver_task                                           *)
(***************************************************************************)
\* the solvables of a name that are candidates and not excluded, and those
\* of the solution
EligibleOrSelected(name) ==
    Eligible(svProvider, name) \cup {id \in svSolution : svProvider.pool[id].name = name}

\* some record of the name is listed by the first channel
InFirstChannel(name) ==
    \E i \in DOMAIN svTask.repodata[1] : svTask.repodata[1][i].name = name

\* C24: strict channel priority. With ChannelPriority::Strict, if any
\* record of name N exists in the first listed channel, no record of N from
\* a later channel is a candidate that is not excluded or appears in the
\* solution, for every combination of top-level specs (channel-specific
\* ones included) and of favored and locked records.
C24_StrictChannelPriority ==
    (svPc \in {"provided", "solved"} /\ svTask.channel_priority = "Strict") =>
        \A name \in PackageNames :
            InFirstChannel(name) =>
                \A id \in EligibleOrSelected(name) :
                    svProvider.pool[id].channel = SolveChannels[1]

\* C25: exclude-newer. When exclude_newer is set, no record with a
\* timestamp strictly later than the cutoff is a candidate that is not
\* excluded or appears in the solution, whatever its origin: available
\* repodata, favored records or locked records.
C25_ExcludeNewer ==
    (svPc \in {"provided", "solved"} /\ svTask.exclude_newer.some) =>
        \A name \in PackageNames :
            \A id \in EligibleOrSelected(name) :
                ~(svProvider.pool[id].timestamp.some
                    /\ svProvider.pool[id].timestamp.value > svTask.exclude_newer.value)

\* the solvables interned for the records of the repodata lists: the favored
\* and the locked records are interned after them
ListedIds ==
    1..(Len(svProvider.pool) - Len(svTask.favored_records) - Len(svTask.locked_records))

\* the channels of the channel-specific top-level specs of a name
RequestedChannels(name) ==
    {svTask.specs[i].channel : i \in {j \in DOMAIN svTask.specs :
                                        svTask.specs[j].name = name
                                        /\ svTask.specs[j].channel # ""}}

\* the solvable is on the excluded list of its name for not being in the
\* requested channel
ExcludedForChannel(id) ==
    LET excluded == svProvider.records[svProvider.pool[id].name].excluded
    IN \E i \in DOMAIN excluded : excluded[i] = [id |-> id, reason |-> "channel"]

TheList == svTask.repodata[1]

\* the record was uploaded after the cutoff of the task
Late(record) ==
    svTask.exclude_newer.some /\ record.timestamp.some
        /\ record.timestamp.value > svTask.exclude_newer.value

\* the pairs of records of the list with the same file stem
SameStemPairs ==
    {p \in (DOMAIN TheList) \X (DOMAIN TheList) :
        p[1] < p[2] /\ TheList[p[1]].file_name.stem = TheList[p[2]].file_name.stem}

\* the records that became candidates, in the order of their solvable ids
CandidateRecords == svProvider.pool

\* the positions of the list at which a file stem occurs for the first time
FirstOccurrences ==
    {i \in DOMAIN TheList :
        \A j \in 1..(i - 1) : TheList[j].file_name.stem # TheList[i].file_name.stem}

\* every stem of the list has one candidate, and the candidates are in the
\* order in which their stems first occur in the list
AtFirstOccurrence ==
    /\ Len(CandidateRecords) = Cardinality(FirstOccurrences)
    /\ \A i \in FirstOccurrences :
          CandidateRecords[Cardinality({j \in FirstOccurrences : j <= i})].file_name.stem
              = TheList[i].file_name.stem

\* C26 as stated: within one repodata list, when two records have the same
\* file stem and different archive types, only the `.conda` record becomes a
\* candidate, at the list position of the first occurrence; DuplicateRecords
\* is returned only when two records with the same stem have the same
\* archive type and neither of them would be excluded.
C26_PreferCondaAsStated ==
    /\ svPc = "provided" =>
          /\ AtFirstOccurrence
          /\ \A p \in SameStemPairs :
                TheList[p[1]].file_name.ext # TheList[p[2]].file_name.ext =>
                    \A k \in DOMAIN CandidateRecords :
                        CandidateRecords[k].file_name.stem = TheList[p[1]].file_name.stem
                            => CandidateRecords[k].file_name.ext = "conda"
    /\ svError = "DuplicateRecords" =>
          \E p \in SameStemPairs :
              /\ TheList[p[1]].file_name.ext = TheList[p[2]].file_name.ext
              /\ ~Late(TheList[p[1]]) /\ ~Late(TheList[p[2]])

\* C26 (amended): within one repodata list, of two records with the same
\* file stem and different archive types that are both excluded by
\* exclude_newer or both not, the `.tar.bz2` one does not become a
\* candidate; of two records with the same stem of which one is excluded
\* and the other is not, the excluded one does not become a candidate,
\* whatever the archive types; every stem has one candidate, at the list
\* position of its first occurrence; DuplicateRecords is returned only when
\* two records with the same stem have the same archive type and are both
\* excluded or both not.
C26_PreferConda ==
    /\ svPc = "provided" =>
          /\ AtFirstOccurrence
          /\ \A p \in SameStemPairs :
              \A k \in DOMAIN CandidateRecords :
                LET a == TheList[p[1]]
                    b == TheList[p[2]]
                IN /\ (a.file_name.ext # b.file_name.ext /\ Late(a) = Late(b)) =>
                        CandidateRecords[k] # (IF a.file_name.ext = "conda" THEN b ELSE a)
                   /\ Late(a) # Late(b) =>
                        CandidateRecords[k] # (IF Late(a) THEN a ELSE b)
    /\ svError = "DuplicateRecords" =>
          \E p \in SameStemPairs :
              /\ TheList[p[1]].file_name.ext = TheList[p[2]].file_name.ext
              /\ Late(TheList[p[1]]) = Late(TheList[p[2]])

\* a list [x.tar.bz2, y, x.conda] with neither x excluded: the candidates
\* are [x.conda, y]
C26_Witness ==
    /\ svPc = "provided"
    /\ Len(TheList) = 3
    /\ TheList[1].file_name.stem = TheList[3].file_name.stem
    /\ TheList[2].file_name.stem # TheList[1].file_name.stem
    /\ TheList[1].file_name.ext = "tar.bz2"
    /\ TheList[3].file_name.ext = "conda"
    /\ ~Late(TheList[1]) /\ ~Late(TheList[3])
    /\ CandidateRecords = <<TheList[3], TheList[2]>>

\* a list whose `.conda` record is excluded and whose `.tar.bz2` record of
\* the same stem is not: the `.tar.bz2` record is the candidate
C26_ExcludedWitness ==
    /\ svPc = "provided"
    /\ Len(TheList) = 2
    /\ TheList[1].file_name.stem = TheList[2].file_name.stem
    /\ TheList[1].file_name.ext = "conda" /\ Late(TheList[1])
    /\ TheList[2].file_name.ext = "tar.bz2" /\ ~Late(TheList[2])
    /\ CandidateRecords = <<TheList[2]>>

\* no solver task
SolveIdle ==
    /\ svTask = [repodata |-> <<>>, favored_records |-> <<>>, locked_records |-> <<>>,
                 specs |-> <<>>, channel_priority |-> "Disabled", exclude_newer |-> None]
    /\ svPc = "idle"
    /\ svProvider = EmptyProvider
    /\ svError = "none"
    /\ svSolution = {}

\* no load_records_recursive call
LoadIdle ==
    /\ ldChannels = <<>>
    /\ ldPlatforms = <<>>
    /\ ldSeeds = {}
    /\ ldPc = "entry"
    /\ ldEntry = [k \in Keys |-> LdVacant]
    /\ ldClient = [k \in Keys |-> "none"]
    /\ ldSub = <<>>
    /\ ldBarrier = <<>>
    /\ ldSeen = {}
    /\ ldPending = {}
    /\ ldRequests = {}
    /\ ldResult = <<>>
    /\ ldReturn = "none"

ClobberIdle ==
    /\ pkgPaths = [n \in Pkgs |-> {}]
    /\ sortedOrder = SetToSeq(Pkgs)
    /\ paths_registry = EmptyRegistry.paths_registry
    /\ clobbers = EmptyRegistry.clobbers
    /\ package_names = EmptyRegistry.package_names
    /\ drop_bomb = TRUE
    /\ disk = EmptyPrefix.disk
    /\ conda_meta = EmptyPrefix.conda_meta
    /\ linkOrder = <<>>
    /\ postStatus = "none"
    /\ pkgVersion = [n \in Pkgs |-> 1]
    /\ txStart = NoStart
    /\ txOps = <<>>
    /\ regDropped = "no"

\* install-only transactions on an empty prefix
Init == ClobberInit /\ GatewayInit /\ JlapInit /\ LoadIdle /\ SolveIdle /\ RegistryIdle

Next == ClobberNext

Spec == Init /\ [][Next]_vars

\* concurrent get_or_create_subdir calls for one key
InitGateway == ClobberIdle /\ GatewayInit /\ JlapInit /\ LoadIdle /\ SolveIdle /\ RegistryIdle

NextGateway == GatewayNext

SpecGateway == InitGateway /\ [][NextGateway]_vars

\* the runtime polls every task that can make progress, and create_subdir
\* comes back
FairSpecGateway == SpecGateway /\ \A t \in Tasks : WF_vars(TaskStep(t))

\* sessions of patch_repo_data against a server whose log grows
InitJlap == ClobberIdle /\ GatewayInit /\ JlapInit /\ LoadIdle /\ SolveIdle /\ RegistryIdle

NextJlap == JlapNext

SpecJlap == InitJlap /\ [][NextJlap]_vars

\* a transaction of remove, change and install operations on a prefix that an
\* install-only transaction and its post_process left
InitTx == TxInit /\ GatewayInit /\ JlapInit /\ LoadIdle /\ SolveIdle /\ RegistryIdle

NextTx == TxNext

SpecTx == InitTx /\ [][NextTx]_vars

\* a transaction that removes packages from such a prefix, and the drop of
\* the install driver at any moment
InitPost == PostInit /\ GatewayInit /\ JlapInit /\ LoadIdle /\ SolveIdle /\ RegistryIdle

NextPost ==
    \/ \E name \in Pkgs : TxRemove(name)
    \/ TxPostProcess
    \/ DropRegistry

SpecPost == InitPost /\ [][NextPost]_vars

\* a transaction that removes packages from such a prefix and installs
\* packages that were not in it
InitReinstall == PostInit /\ GatewayInit /\ JlapInit /\ LoadIdle /\ SolveIdle /\ RegistryIdle

NextReinstall ==
    \/ \E name \in Pkgs : TxRemove(name)
    \/ \E name \in Pkgs : TxInstall(name)

SpecReinstall == InitReinstall /\ [][NextReinstall]_vars

\* register_paths calls on a registry built from the records of a prefix
InitRegistry ==
    ClobberIdle /\ GatewayInit /\ JlapInit /\ LoadIdle /\ SolveIdle /\ RegistryInit

NextRegistry == RegistryNext

SpecRegistry == InitRegistry /\ [][NextRegistry]_vars

\* one load_records_recursive call
InitLoad == ClobberIdle /\ GatewayInit /\ JlapInit /\ LoadInit /\ SolveIdle /\ RegistryIdle

NextLoad == LoadNext

SpecLoad == InitLoad /\ [][NextLoad]_vars

\* the runtime polls the task of the call, and every subdir load and every
\* record fetch eventually completes: while the call has a step to take,
\* one is taken
FairSpecLoad == SpecLoad /\ WF_vars(NextLoad)

\* one solver task with two channels
InitSolve == ClobberIdle /\ GatewayInit /\ JlapInit /\ LoadIdle /\ SolveInit /\ RegistryIdle

NextSolve == ProviderBuilt \/ Solved \/ Unsolvable

SpecSolve == InitSolve /\ [][NextSolve]_vars

\* one solver task with one repodata list
InitDedup == ClobberIdle /\ GatewayInit /\ JlapInit /\ LoadIdle /\ DedupInit /\ RegistryIdle

NextDedup == ProviderBuilt \/ ProviderFailed

SpecDedup == InitDedup /\ [][NextDedup]_vars

====
